---- MODULE Spec2Model ----
(***************************************************************************)
(* A model of the acacia web framework: the html! macro (acacia_macros/    *)
(* src/html.rs) together with the rendering capability it calls            *)
(* (acacia_core/src/lib.rs), and the #[page] / #[action] route macros      *)
(* (acacia_macros/src/route.rs).                                           *)
(*                                                                         *)
(* Text is a sequence of one-character strings, so that escaping, splitting *)
(* and searching are computed character by character.                      *)
(***************************************************************************)
EXTENDS Integers, Sequences, FiniteSets, TLC

VARIABLES
    phase,      \* html!: "idle", "running", "done", "failed", "parse_error" or
                \* "compile_error"
    doc,        \* the nodes the macro invocation was written with
    env,        \* the value bound in the enclosing scope (a component's argument)
    pos,        \* index in doc of the next top-level node whose code runs
    html,       \* the __html buffer of the running render
    fragment,   \* the content of the Fragment the render returned, or NoFragment
    calls,      \* the component calls the render made, in order
    routes,     \* what each route declaration expanded to, in declaration order
    registry,   \* the RouteDefinitions submitted to inventory, in order
    server,     \* Acacia::serve: "off", "routing", "bound", "serving" or "panicked"
    enumerated, \* the RouteDefinitions as inventory::iter yields them
    router,     \* the dispatch table: the (path, method) entries added so far
    requests,   \* the number of requests served
    hx,         \* the HtmxAction builder at hand, or NoAction
    built,      \* the strings HtmxAction::build returned, in order
    response,   \* the response the last AppError converted to, or NoResponse
    renders,    \* the html! blocks running for concurrent requests
    store,      \* the rows of the database table
    rowid,      \* the connection's last_insert_rowid()
    dbcall      \* the Db::insert and Db::update calls made, each with its position

vars == <<phase, doc, env, pos, html, fragment, calls, routes, registry,
          server, enumerated, router, requests, hx, built, response,
          renders, store, rowid, dbcall>>
concVars == <<renders>>
dbVars == <<store, rowid, dbcall>>
serveVars == <<server, enumerated, router, requests>>
htmxVars == <<hx, built>>
errVars == <<response>>
renderVars == <<phase, doc, env, pos, html, fragment, calls>>
routeVars == <<routes, registry>>

(***************************************************************************)
(* Bounds of the model.                                                    *)
(***************************************************************************)
MaxTextLen == 2         \* longest text value rendered
MaxIterLen == 2         \* longest sequence a for block iterates
MaxChunks == 3          \* path templates are built from at most this many chunks

(***************************************************************************)
(* Text helpers.                                                           *)
(***************************************************************************)
RECURSIVE Flatten(_)
Flatten(ss) == IF ss = <<>> THEN <<>> ELSE Head(ss) \o Flatten(Tail(ss))

Range(s) == {s[i] : i \in 1..Len(s)}

SeqsUpTo(S, n) == UNION {[1..k -> S] : k \in 0..n}

\* s[from..] (empty when from is past the end)
Drop(s, from) == SubSeq(s, from, Len(s))

\* the positions at which sub occurs in s
Occurrences(sub, s) ==
    {i \in 1..(Len(s) - Len(sub) + 1) : SubSeq(s, i, i + Len(sub) - 1) = sub}

\* str::find: the first position of character c in s, 0 when absent
Find(s, c) ==
    IF \E i \in 1..Len(s) : s[i] = c
    THEN CHOOSE i \in 1..Len(s) : s[i] = c /\ \A j \in 1..(i - 1) : s[j] # c
    ELSE 0

\* str::split(c): the pieces of s between occurrences of character c
RECURSIVE Split(_, _)
Split(s, c) ==
    LET i == Find(s, c)
    IN IF i = 0 THEN <<s>>
       ELSE <<SubSeq(s, 1, i - 1)>> \o Split(Drop(s, i + 1), c)

\* str::replace of one character by a text
RECURSIVE Replace(_, _, _)
Replace(s, c, by) ==
    IF s = <<>> THEN <<>>
    ELSE (IF Head(s) = c THEN by ELSE <<Head(s)>>) \o Replace(Tail(s), c, by)

Digit(d) == <<"0", "1", "2", "3", "4", "5", "6", "7", "8", "9">>[d + 1]

RECURSIVE NatToString(_)
NatToString(n) ==
    IF n < 10 THEN <<Digit(n)>> ELSE NatToString(n \div 10) \o <<Digit(n % 10)>>

\* Display of an integer
IntToString(n) == IF n < 0 THEN <<"-">> \o NatToString(0 - n) ELSE NatToString(n)

BoolToString(b) ==
    IF b THEN <<"t", "r", "u", "e">> ELSE <<"f", "a", "l", "s", "e">>

(***************************************************************************)
(* acacia_core/src/hateoas.rs: Endpoint, Swap, Target and the HtmxAction   *)
(* builder with its constructors loads, submits and removes.               *)
(***************************************************************************)
None == <<>>
Some(x) == <<x>>

Methods == {"GET", "POST", "PUT", "PATCH", "DELETE"}
Endpoint(path, method) == [path |-> path, method |-> method]

Swaps ==
    {"InnerHtml", "OuterHtml", "BeforeBegin", "AfterBegin", "BeforeEnd",
     "AfterEnd", "Delete", "None"}

\* impl Display for Swap
swap_fmt(s) ==
    CASE s = "InnerHtml" -> <<"i", "n", "n", "e", "r", "H", "T", "M", "L">>
      [] s = "OuterHtml" -> <<"o", "u", "t", "e", "r", "H", "T", "M", "L">>
      [] s = "BeforeBegin" -> <<"b", "e", "f", "o", "r", "e", "b", "e", "g", "i", "n">>
      [] s = "AfterBegin" -> <<"a", "f", "t", "e", "r", "b", "e", "g", "i", "n">>
      [] s = "BeforeEnd" -> <<"b", "e", "f", "o", "r", "e", "e", "n", "d">>
      [] s = "AfterEnd" -> <<"a", "f", "t", "e", "r", "e", "n", "d">>
      [] s = "Delete" -> <<"d", "e", "l", "e", "t", "e">>
      [] s = "None" -> <<"n", "o", "n", "e">>

This == [target |-> "This"]
Parent == [target |-> "Parent"]
Closest(selector) == [target |-> "Closest", selector |-> selector]
Selector(selector) == [target |-> "Selector", selector |-> selector]

\* impl Display for Target
target_fmt(t) ==
    CASE t.target = "This" -> <<"t", "h", "i", "s">>
      [] t.target = "Parent" -> <<"c", "l", "o", "s", "e", "s", "t", " ", "l", "i">>
      [] t.target = "Closest" -> <<"c", "l", "o", "s", "e", "s", "t", " ">> \o t.selector
      [] t.target = "Selector" -> t.selector

\* HtmxAction::new
HtmxAction_new(endpoint) == [endpoint |-> endpoint, target |-> None, swap |-> None]

\* the setters take the builder by value and return it changed
target(self, t) == [self EXCEPT !.target = Some(t)]
into(self, selector) == [self EXCEPT !.target = Some(Selector(selector))]
swap(self, s) == [self EXCEPT !.swap = Some(s)]
append(self) == [self EXCEPT !.swap = Some("BeforeEnd")]
prepend(self) == [self EXCEPT !.swap = Some("AfterBegin")]

\* Vec<String>::join
RECURSIVE Join(_, _)
Join(strs, sep) ==
    IF strs = <<>> THEN <<>>
    ELSE IF Len(strs) = 1 THEN strs[1]
    ELSE strs[1] \o sep \o Join(Tail(strs), sep)

\* format!("{}=\"{}\"", name, value)
AttrPair(name, value) == name \o <<"=", "\"">> \o value \o <<"\"">>

method_attr(method) ==
    CASE method = "GET" -> <<"h", "x", "-", "g", "e", "t">>
      [] method = "POST" -> <<"h", "x", "-", "p", "o", "s", "t">>
      [] method = "PUT" -> <<"h", "x", "-", "p", "u", "t">>
      [] method = "PATCH" -> <<"h", "x", "-", "p", "a", "t", "c", "h">>
      [] method = "DELETE" -> <<"h", "x", "-", "d", "e", "l", "e", "t", "e">>

\* build with the swap pushed before the target
build_swap_first(self) ==
    Join(<<AttrPair(method_attr(self.endpoint.method), self.endpoint.path)>>
         \o (IF self.swap # None
             THEN <<AttrPair(<<"h", "x", "-", "s", "w", "a", "p">>, swap_fmt(self.swap[1]))>> ELSE <<>>)
         \o (IF self.target # None
             THEN <<AttrPair(<<"h", "x", "-", "t", "a", "r", "g", "e", "t">>, target_fmt(self.target[1]))>> ELSE <<>>),
         <<" ">>)

\* HtmxAction::build
build(self) ==
    Join(<<AttrPair(method_attr(self.endpoint.method), self.endpoint.path)>>
         \o (IF self.target # None
             THEN <<AttrPair(<<"h", "x", "-", "t", "a", "r", "g", "e", "t">>, target_fmt(self.target[1]))>> ELSE <<>>)
         \o (IF self.swap # None
             THEN <<AttrPair(<<"h", "x", "-", "s", "w", "a", "p">>, swap_fmt(self.swap[1]))>> ELSE <<>>),
         <<" ">>)

\* loads that keeps the method of the endpoint
loads_keep_method(endpoint) == HtmxAction_new(endpoint)

loads(endpoint) == HtmxAction_new(Endpoint(endpoint.path, "GET"))
submits(endpoint) == HtmxAction_new(endpoint)
removes(endpoint) == target(swap(HtmxAction_new(endpoint), "OuterHtml"), Parent)

(***************************************************************************)
(* acacia_core: Fragment, escape_html and the RenderHtml capability.       *)
(***************************************************************************)
\* no Fragment: a token no rendered text is equal to
NoFragment == <<"no fragment">>
NoAction == [none |-> TRUE]
NoResponse == [none |-> TRUE]

\* The characters the specification wants escaped.
Special == {"&", "<", ">", "\"", "'"}

\* html_escape::encode_text rewrites exactly & < > and copies every other
\* character, the two quote characters included.
encode_text_char(c) ==
    CASE c = "&" -> <<"&", "a", "m", "p", ";">>
      [] c = "<" -> <<"&", "l", "t", ";">>
      [] c = ">" -> <<"&", "g", "t", ";">>
      [] OTHER -> <<c>>

escape_html(s) == Flatten([i \in 1..Len(s) |-> encode_text_char(s[i])])

\* A value an embedded expression evaluates to, by its Rust type.
Str(s) == [t |-> "String", s |-> s]
I32(n) == [t |-> "i32", n |-> n]
Bool(b) == [t |-> "bool", b |-> b]
Frag(s) == [t |-> "Fragment", s |-> s]
Action(a) == [t |-> "HtmxAction", a |-> a]

\* impl RenderHtml for Fragment, String, &String, &str, the numbers and bool
render_html(v) ==
    CASE v.t = "Fragment" -> v.s
      [] v.t = "String" -> escape_html(v.s)
      [] v.t = "i32" -> IntToString(v.n)
      [] v.t = "bool" -> BoolToString(v.b)

\* the types RenderHtml is implemented for
HasRenderHtml(v) == v.t \in {"Fragment", "String", "i32", "bool"}

\* Display (to_string) of a value; Fragment writes its content as it is
to_string(v) ==
    CASE v.t = "Fragment" -> v.s
      [] v.t = "HtmxAction" -> build(v.a)
      [] v.t = "String" -> v.s
      [] v.t = "i32" -> IntToString(v.n)
      [] v.t = "bool" -> BoolToString(v.b)

(***************************************************************************)
(* Names that appear in markup, spelled out as text.                       *)
(***************************************************************************)
n_area == <<"a", "r", "e", "a">>
n_base == <<"b", "a", "s", "e">>
n_br == <<"b", "r">>
n_col == <<"c", "o", "l">>
n_embed == <<"e", "m", "b", "e", "d">>
n_hr == <<"h", "r">>
n_img == <<"i", "m", "g">>
n_input == <<"i", "n", "p", "u", "t">>
n_link == <<"l", "i", "n", "k">>
n_meta == <<"m", "e", "t", "a">>
n_source == <<"s", "o", "u", "r", "c", "e">>
n_track == <<"t", "r", "a", "c", "k">>
n_wbr == <<"w", "b", "r">>
n_div == <<"d", "i", "v">>
n_li == <<"l", "i">>
n_my_tag == <<"m", "y", "-", "t", "a", "g">>
n_Card == <<"C", "a", "r", "d">>
n_Logo == <<"L", "o", "g", "o">>
n_X_y == <<"X", "-", "y">>
n_checked == <<"c", "h", "e", "c", "k", "e", "d">>
n_disabled == <<"d", "i", "s", "a", "b", "l", "e", "d">>
n_selected == <<"s", "e", "l", "e", "c", "t", "e", "d">>
n_readonly == <<"r", "e", "a", "d", "o", "n", "l", "y">>
n_id == <<"i", "d">>
n_title == <<"t", "i", "t", "l", "e">>

\* char::is_uppercase, on the letters the model's names use
UpperChars ==
    {"A", "B", "C", "D", "E", "F", "G", "H", "I", "J", "K", "L", "M",
     "N", "O", "P", "Q", "R", "S", "T", "U", "V", "W", "X", "Y", "Z"}
is_uppercase(c) == c \in UpperChars

\* rstml's NodeName: a name holding a dash is NodeName::Punctuated, any other
\* name of the model is NodeName::Path
NodeNameKind(name) == IF "-" \in Range(name) THEN "Punctuated" ELSE "Path"

(***************************************************************************)
(* The node tree rstml hands to the macro, and the Rust expressions        *)
(* embedded in it.                                                         *)
(***************************************************************************)
Text(value) == [kind |-> "Text", value |-> value]
Block(stmts) == [kind |-> "Block", stmts |-> stmts]
\* form: how the element is written: "OpenClose" <t>..</t>, "SelfSlash" <t/>,
\* "OpenOnly" <t> with no close tag
Element(name, form, attributes, children) ==
    [kind |-> "Element", name |-> name, form |-> form,
     attributes |-> attributes, children |-> children]

NoValue == [x |-> "NoValue"]
Attribute(key, value) == [a |-> "Attribute", key |-> key, value |-> value]
BlockAttr(expr) == [a |-> "Block", expr |-> expr]

Lit(v) == [x |-> "Lit", v |-> v]
\* an expression of the type of v whose evaluation does not complete: it
\* panics, or it ends in ? on an Err and returns from the enclosing function
Raise(v) == [x |-> "Raise", v |-> v]
Var == [x |-> "Var"]
Macro(nodes) == [x |-> "Macro", nodes |-> nodes]
Call(fn, args) == [x |-> "Call", fn |-> fn, args |-> args]
BlockExpr(stmts) == [x |-> "Block", stmts |-> stmts]
ForLoop(iter, body) == [x |-> "ForLoop", iter |-> iter, body |-> body]
NoElse == [x |-> "NoElse"]
If(cond, then_branch, else_branch) ==
    [x |-> "If", cond |-> cond, then_branch |-> then_branch,
     else_branch |-> else_branch]

ExprStmt(expr) == [s |-> "Expr", expr |-> expr]
MacroStmt(nodes) == [s |-> "Macro", nodes |-> nodes]
LocalStmt == [s |-> "Local"]

Unit == [t |-> "unit"]

\* What the generated code holds where the macro emitted compile_error!, or
\* where rustc rejects it: a token no rendered text contains.
CompileError == <<"compile_error!">>

(***************************************************************************)
(* html.rs: the code generator, read together with the code it generates.  *)
(* Each operator gives the text the generated statements append to __html  *)
(* when they run with the scope's binding e.                               *)
(***************************************************************************)
\* HTML's void element names, as the specification lists them
VoidNames ==
    {n_area, n_base, n_br, n_col, n_embed, n_hr, n_img, n_input, n_link,
     n_meta, n_source, n_track, n_wbr}

\* the parser's set with one name left out
self_closed_without_br == VoidNames \ {n_br}

\* the parser's set (html_impl) and the renderer's list (process_element)
self_closed ==
    {n_area, n_base, n_br, n_col, n_embed, n_hr, n_img, n_input, n_link,
     n_meta, n_source, n_track, n_wbr}
\* the renderer's list with one name left out
self_closing_without_wbr ==
    <<n_area, n_base, n_br, n_col, n_embed, n_hr, n_img, n_input, n_link,
      n_meta, n_source, n_track>>

self_closing ==
    <<n_area, n_base, n_br, n_col, n_embed, n_hr, n_img, n_input, n_link,
      n_meta, n_source, n_track, n_wbr>>

BooleanAttributes == {n_checked, n_disabled, n_selected, n_readonly}

RECURSIVE process_nodes(_, _)
RECURSIVE process_node(_, _)
RECURSIVE process_element(_, _)
RECURSIVE process_component(_, _)
RECURSIVE process_block(_, _)
RECURSIVE parse_block_body(_, _)
RECURSIVE Eval(_, _)
RECURSIVE StmtValue(_, _)
RECURSIVE Component(_, _)

\* let x: ::acacia_core::Fragment = v; x.0
AsFragment(v) == IF v.t = "Fragment" THEN v.s ELSE CompileError

\* The value of a Rust expression in a scope binding e.
Eval(expr, e) ==
    CASE expr.x = "Lit" -> expr.v
      [] expr.x = "Raise" -> expr.v
      [] expr.x = "Var" -> e
      [] expr.x = "Macro" -> Frag(process_nodes(expr.nodes, e))
      [] expr.x = "Call" ->
            Frag(Component(expr.fn,
                           [i \in 1..Len(expr.args) |-> Eval(expr.args[i], e)]))
      [] expr.x = "Block" ->
            IF expr.stmts = <<>> THEN Unit
            ELSE StmtValue(expr.stmts[Len(expr.stmts)], e)
      [] expr.x = "If" ->
            \* an if without else has type ()
            IF expr.else_branch = NoElse THEN Unit
            ELSE IF expr.cond THEN Eval(BlockExpr(expr.then_branch), e)
            ELSE Eval(expr.else_branch, e)
      [] OTHER -> Unit

StmtValue(stmt, e) ==
    CASE stmt.s = "Expr" -> Eval(stmt.expr, e)
      [] stmt.s = "Macro" -> Frag(process_nodes(stmt.nodes, e))
      [] OTHER -> Unit

unwrap_block_expr(expr) ==
    IF expr.x = "Block" /\ Len(expr.stmts) = 1 /\ expr.stmts[1].s = "Expr"
    THEN expr.stmts[1].expr
    ELSE expr

\* process_attribute without the boolean-attribute branch
process_attribute_always_valued(attr, e) ==
    IF attr.a = "Attribute"
    THEN IF attr.value # NoValue
         THEN LET value == Eval(attr.value, e)
              IN IF value.t = "unit" THEN CompileError
                 ELSE <<" ">> \o attr.key \o <<"=", "\"">>
                      \o escape_html(to_string(value)) \o <<"\"">>
         ELSE <<" ">> \o attr.key
    ELSE LET value == Eval(attr.expr, e)
         IN IF value.t = "unit" THEN CompileError
            ELSE <<" ">> \o to_string(value)

\* process_attribute with the spread escaped like an attribute value
process_attribute_spread_escaped(attr, e) ==
    IF attr.a = "Attribute"
    THEN IF attr.value # NoValue
         THEN IF attr.key \in BooleanAttributes
              THEN LET condition == Eval(unwrap_block_expr(attr.value), e)
                   IN IF condition.t # "bool" THEN CompileError
                      ELSE IF condition.b THEN <<" ">> \o attr.key ELSE <<>>
              ELSE LET value == Eval(attr.value, e)
                   IN IF value.t = "unit" THEN CompileError
                      ELSE <<" ">> \o attr.key \o <<"=", "\"">>
                           \o escape_html(to_string(value)) \o <<"\"">>
         ELSE <<" ">> \o attr.key
    ELSE LET value == Eval(attr.expr, e)
         IN IF value.t = "unit" THEN CompileError
            ELSE <<" ">> \o escape_html(to_string(value))

process_attribute(attr, e) ==
    IF attr.a = "Attribute"
    THEN IF attr.value # NoValue
         THEN IF attr.key \in BooleanAttributes
              THEN LET condition == Eval(unwrap_block_expr(attr.value), e)
                   IN IF condition.t # "bool" THEN CompileError
                      ELSE IF condition.b THEN <<" ">> \o attr.key ELSE <<>>
              ELSE LET value == Eval(attr.value, e)
                   IN IF value.t = "unit" THEN CompileError
                      ELSE <<" ">> \o attr.key \o <<"=", "\"">>
                           \o escape_html(to_string(value)) \o <<"\"">>
         ELSE <<" ">> \o attr.key
    ELSE LET value == Eval(attr.expr, e)
         IN IF value.t = "unit" THEN CompileError
            ELSE <<" ">> \o to_string(value)

\* The props process_component collects: name: value for an attribute with a
\* value, the bare expression for a block attribute; an attribute without a
\* value adds nothing.
component_props(element) ==
    LET one(attr) ==
            IF attr.a = "Attribute"
            THEN IF attr.value # NoValue
                 THEN <<[named |-> TRUE, name |-> attr.key, expr |-> attr.value]>>
                 ELSE <<>>
            ELSE <<[named |-> FALSE, name |-> <<>>, expr |-> attr.expr]>>
    IN Flatten([i \in 1..Len(element.attributes) |-> one(element.attributes[i])])

\* The component functions in scope: Card(title) is
\* html! { <li>{title}</li> } and Logo() is html! { <hr> }.
ComponentArity(fn) ==
    CASE fn = n_Card -> 1
      [] fn = n_Logo -> 0
      [] OTHER -> -1

Component(fn, args) ==
    IF Len(args) # ComponentArity(fn) THEN CompileError
    ELSE IF fn = n_Card
         THEN process_nodes(
                <<Element(n_li, "OpenClose", <<>>, <<Block(<<ExprStmt(Var)>>)>>)>>,
                args[1])
         ELSE process_nodes(<<Element(n_hr, "OpenOnly", <<>>, <<>>)>>, Unit)

\* #component_ident(#(#props),*): Rust has no named arguments, so a call
\* holding name: value does not compile
process_component(element, e) ==
    IF NodeNameKind(element.name) # "Path" THEN CompileError
    ELSE LET props == component_props(element)
         IN IF \E i \in 1..Len(props) : props[i].named THEN CompileError
            ELSE Component(element.name,
                           [i \in 1..Len(props) |-> Eval(props[i].expr, e)])

\* the test applied to every character of the name instead of the first
is_component_all_upper(tag_name) ==
    tag_name # <<>> /\ \A i \in 1..Len(tag_name) : is_uppercase(tag_name[i])

is_component(tag_name) == tag_name # <<>> /\ is_uppercase(tag_name[1])

process_element(element, e) ==
    LET tag_name == element.name
    IN IF is_component(tag_name) THEN process_component(element, e)
       ELSE <<"<">> \o tag_name
            \o Flatten([i \in 1..Len(element.attributes) |->
                            process_attribute(element.attributes[i], e)])
            \o (IF tag_name \in Range(self_closing)
                THEN <<" ", "/", ">">>
                ELSE <<">">> \o process_nodes(element.children, e)
                     \o <<"<", "/">> \o tag_name \o <<">">>)

parse_block_body(block, e) ==
    LET stmts == block
    IN IF Len(stmts) = 1 /\ stmts[1].s = "Expr"
       THEN IF stmts[1].expr.x = "Macro"
            THEN process_nodes(stmts[1].expr.nodes, e)
            ELSE AsFragment(Eval(stmts[1].expr, e))
       ELSE Flatten([i \in 1..Len(stmts) |->
                        AsFragment(Eval(BlockExpr(<<stmts[i]>>), e))])

\* for #pat in #iter { #body_nodes }, without the binding: a body written
\* against the enclosing scope
process_for_outer_scope(for_loop, e) ==
    Flatten([i \in 1..Len(for_loop.iter) |-> parse_block_body(for_loop.body, e)])

\* for #pat in #iter { #body_nodes }
process_for(for_loop, e) ==
    Flatten([i \in 1..Len(for_loop.iter) |->
                parse_block_body(for_loop.body, for_loop.iter[i])])

\* if #cond { #then_nodes } with the else branch left out
process_if_no_else(if_expr, e) ==
    IF if_expr.cond THEN parse_block_body(if_expr.then_branch, e) ELSE <<>>

\* if #cond { #then_nodes } else { let __else_result: Fragment = #else_expr; .. }
process_if(if_expr, e) ==
    IF if_expr.cond
    THEN parse_block_body(if_expr.then_branch, e)
    ELSE IF if_expr.else_branch = NoElse THEN <<>>
    ELSE AsFragment(Eval(if_expr.else_branch, e))

\* __html.push_str(&RenderHtml::render_html(&(#(#stmts)*)))
process_expr_block(stmts, e) ==
    IF Len(stmts) # 1 THEN CompileError
    ELSE LET value == StmtValue(stmts[1], e)
         IN IF HasRenderHtml(value) THEN render_html(value) ELSE CompileError

process_block(block, e) ==
    LET stmts == block.stmts
    IN IF Len(stmts) = 1 /\ stmts[1].s = "Expr" /\ stmts[1].expr.x = "ForLoop"
       THEN process_for(stmts[1].expr, e)
       ELSE IF Len(stmts) = 1 /\ stmts[1].s = "Expr" /\ stmts[1].expr.x = "If"
       THEN process_if(stmts[1].expr, e)
       ELSE process_expr_block(stmts, e)

process_node(node, e) ==
    CASE node.kind = "Element" -> process_element(node, e)
      [] node.kind = "Text" -> node.value
      [] node.kind = "Block" -> process_block(node, e)

\* the code of the nodes emitted last node first
process_nodes_reversed(nodes, e) ==
    Flatten([i \in 1..Len(nodes) |-> process_node(nodes[Len(nodes) + 1 - i], e)])

process_nodes(nodes, e) ==
    Flatten([i \in 1..Len(nodes) |-> process_node(nodes[i], e)])

\* rstml's parse of one element under the configuration html_impl builds:
\* an element closed in its open tag (<t/>) or by a close tag is accepted,
\* an open tag with neither is accepted only for always_self_closed_elements
parse_element(element) ==
    element.form \in {"SelfSlash", "OpenClose"} \/ element.name \in self_closed

RECURSIVE parse_simple(_)
parse_simple(nodes) ==
    \A i \in 1..Len(nodes) :
        nodes[i].kind = "Element" =>
            parse_element(nodes[i]) /\ parse_simple(nodes[i].children)

\* The text the whole expansion appends, or CompileError when the parse fails.
html_impl(input, e) ==
    IF ~parse_simple(input) THEN CompileError ELSE process_nodes(input, e)

\* The build of an invocation succeeds when neither the macro nor rustc
\* reports an error for it.
Builds(input, e) == "compile_error!" \notin Range(html_impl(input, e))

\* The component calls the code generated for a node makes: one per element
\* dispatched as a component, in document order.
RECURSIVE invocations(_, _)
invocations(nodes, e) ==
    LET one(node) ==
            IF node.kind # "Element" THEN <<>>
            ELSE IF is_component(node.name)
                 THEN LET props == component_props(node)
                      IN <<[fn |-> node.name,
                            args |-> [i \in 1..Len(props) |->
                                         [named |-> props[i].named,
                                          name |-> props[i].name,
                                          value |-> Eval(props[i].expr, e)]]]>>
                 ELSE IF node.name \in Range(self_closing) THEN <<>>
                 ELSE invocations(node.children, e)
    IN Flatten([i \in 1..Len(nodes) |-> one(nodes[i])])

(***************************************************************************)
(* The markup the model renders.                                           *)
(***************************************************************************)
TextChars == {"a", "&", "<", ">", "\"", "'"}
Texts == SeqsUpTo(TextChars, MaxTextLen)
Numbers == {0, 7, -12}
Fragments == {<<"<", "b", ">">>, <<"&">>}
Values ==
    {Str(s) : s \in Texts} \cup {I32(n) : n \in Numbers}
    \cup {Bool(b) : b \in BOOLEAN} \cup {Frag(s) : s \in Fragments}
Envs == {Str(<<"a">>), Str(<<"<", "'">>)}

Braced(expr) == BlockExpr(<<ExprStmt(expr)>>)

\* {expr}: a generic expression block
BlockDocs ==
    {<<Block(<<ExprStmt(Lit(v))>>)>> : v \in Values}
    \cup {<<Block(<<ExprStmt(Var)>>)>>}

LiteralAttrs ==
    {Attribute(n_id, Braced(Lit(v))) : v \in Values}
    \cup {Attribute(n_title, Lit(Str(s))) : s \in {<<"a">>, <<"a", "\"">>}}
    \cup {Attribute(n_id, Braced(Var))}
ValuedBoolAttrs ==
    {Attribute(k, Braced(Lit(Bool(b)))) : k \in BooleanAttributes, b \in BOOLEAN}
BoolAttrs == ValuedBoolAttrs \cup {Attribute(k, NoValue) : k \in BooleanAttributes}
SpreadAttrs == {BlockAttr(Lit(Str(s))) : s \in {<<"a">>, <<"a", "=", "\"", "<", "\"">>}}
PairAttrs == ValuedBoolAttrs \cup {Attribute(n_id, Lit(Str(<<"a">>)))}

\* <tag attr> and <tag attr attr>
AttrDocs ==
    {<<Element(t, IF t = n_input THEN "OpenOnly" ELSE "OpenClose", <<a>>, <<>>)>> :
        t \in {n_div, n_input}, a \in LiteralAttrs \cup BoolAttrs \cup SpreadAttrs}
    \cup
    {<<Element(n_input, "SelfSlash", <<a, b>>, <<>>)>> : a \in PairAttrs, b \in PairAttrs}

Props ==
    {Attribute(n_title, Braced(Lit(Str(<<"a">>)))), Attribute(n_title, NoValue),
     BlockAttr(Lit(Str(<<"<">>))), BlockAttr(Var)}
PropLists == SeqsUpTo(Props, 2)
Tags == {n_div, n_br, n_li, n_my_tag, n_Card, n_Logo, n_X_y}

ChildLists ==
    {<<>>, <<Text(<<"a">>)>>,
     <<Element(n_Logo, "SelfSlash", <<>>, <<>>), Element(n_br, "OpenOnly", <<>>, <<>>)>>,
     <<Element(n_li, "OpenClose", <<>>,
               <<Element(n_Card, "SelfSlash", <<BlockAttr(Lit(I32(7)))>>, <<>>)>>)>>}

\* one element, of every tag, written in every form
ElementDocs ==
    {<<Element(t, f, a, IF f = "OpenClose" THEN c ELSE <<>>)>> :
        t \in Tags, f \in {"OpenClose", "SelfSlash", "OpenOnly"},
        a \in PropLists, c \in ChildLists}
    \ {<<Element(t, "OpenClose", a, c)>> :
        t \in VoidNames, a \in PropLists, c \in ChildLists}

ItemNodes == <<Element(n_li, "OpenClose", <<>>, <<Block(<<ExprStmt(Var)>>)>>)>>
Bodies ==
    {<<>>,
     <<ExprStmt(Call(n_Card, <<Var>>))>>,
     <<ExprStmt(Macro(ItemNodes))>>,
     <<MacroStmt(ItemNodes)>>,
     <<MacroStmt(<<Text(<<"a">>)>>), MacroStmt(<<Block(<<ExprStmt(Var)>>)>>)>>,
     <<ExprStmt(Lit(Frag(<<"<", "b", ">">>)))>>}
IterValues == {Str(<<"a">>), Str(<<"<">>), I32(7)}
Iterables == SeqsUpTo(IterValues, MaxIterLen)

Around(nodes) == <<Text(<<"(">>)>> \o nodes \o <<Text(<<")">>)>>

\* {for x in iter { body }}
ForDocs ==
    LET core == {<<Block(<<ExprStmt(ForLoop(it, b))>>)>> : it \in Iterables, b \in Bodies}
    IN core \cup {Around(d) : d \in core}

ElseBlocks ==
    {BlockExpr(<<ExprStmt(Lit(Frag(<<"&">>)))>>), BlockExpr(<<MacroStmt(ItemNodes)>>)}
Elses ==
    {NoElse} \cup ElseBlocks
    \cup {If(c, <<ExprStmt(Lit(Frag(<<"<", "b", ">">>)))>>, el) :
            c \in BOOLEAN, el \in {NoElse} \cup ElseBlocks}
ThenBodies ==
    {<<>>, <<ExprStmt(Macro(ItemNodes))>>, <<MacroStmt(<<Text(<<"a">>)>>)>>,
     <<MacroStmt(<<Text(<<"a">>)>>), MacroStmt(<<Text(<<"<">>)>>)>>}

\* {if cond { then } else ...}
IfDocs ==
    LET core == {<<Block(<<ExprStmt(If(c, th, el))>>)>> :
                    c \in BOOLEAN, th \in ThenBodies, el \in Elses}
    IN core \cup {Around(d) : d \in core}

\* <tag> of every always-self-closed name, in both forms it can be written
VoidDocs ==
    {<<Element(t, f, <<>>, <<>>)>> : t \in VoidNames, f \in {"OpenOnly", "SelfSlash"}}

\* nodes whose output tells them apart: text, expression blocks and a div
\* around some of them
Leaves == {Text(<<"a">>), Block(<<ExprStmt(Var)>>), Block(<<ExprStmt(Lit(I32(7)))>>)}
SequenceNodes ==
    Leaves
    \cup {Element(n_div, "OpenClose", <<>>, <<x, y>>) : x \in Leaves, y \in Leaves}

\* several nodes one after the other
SequenceDocs == {<<x, y>> : x \in SequenceNodes, y \in SequenceNodes}

\* blocks that are not one expression statement
StatementDocs ==
    {<<Block(stmts)>> :
        stmts \in {<<LocalStmt, ExprStmt(Var)>>,
                   <<ExprStmt(Lit(Str(<<"a">>))), ExprStmt(Lit(I32(7)))>>,
                   <<ExprStmt(ForLoop(<<I32(7)>>, <<MacroStmt(ItemNodes)>>)),
                     ExprStmt(Lit(Frag(<<"&">>)))>>,
                   <<MacroStmt(ItemNodes)>>,
                   <<MacroStmt(<<Text(<<"a">>)>>)>>}}

\* <tag attr {spread} attr>
SpreadValues ==
    {Str(<<"a">>), Str(<<"a", "=", "\"", "<", "\"">>),
     Action(removes(Endpoint(<<"/", "t">>, "DELETE"))),
     Action(into(submits(Endpoint(<<"/", "t">>, "POST")), <<"#", "x">>))}
BesideSpread ==
    {<<>>, <<Attribute(n_id, Lit(Str(<<"a">>)))>>, <<Attribute(n_checked, NoValue)>>}
SpreadDocs ==
    {<<Element(t, IF t = n_input THEN "OpenOnly" ELSE "OpenClose",
               before \o <<BlockAttr(Lit(v))>> \o after, <<>>)>> :
        t \in {n_div, n_input}, v \in SpreadValues,
        before \in BesideSpread, after \in BesideSpread}

\* documents with an expression that fails, after and inside other nodes
FailingBlock == Block(<<ExprStmt(Raise(Str(<<"a">>)))>>)
FailingDocs ==
    {<<FailingBlock>>}
    \cup {<<x, FailingBlock, y>> : x \in Leaves, y \in Leaves}
    \cup {<<x, Element(n_div, "OpenClose", <<>>, <<y, FailingBlock>>)>> :
            x \in Leaves, y \in Leaves}

Docs ==
    BlockDocs \cup AttrDocs \cup ElementDocs \cup VoidDocs \cup ForDocs \cup IfDocs
    \cup SequenceDocs \cup StatementDocs \cup SpreadDocs \cup FailingDocs

(***************************************************************************)
(* The render: html! expands where it is written, and the generated block  *)
(* runs statement by statement on a buffer of its own.                     *)
(***************************************************************************)
Init ==
    /\ phase = "idle"
    /\ doc = <<>>
    /\ env = Unit
    /\ pos = 0
    /\ html = <<>>
    /\ fragment = NoFragment
    /\ calls = <<>>
    /\ routes = <<>>
    /\ registry = <<>>
    /\ server = "off"
    /\ enumerated = <<>>
    /\ router = <<>>
    /\ requests = 0
    /\ hx = NoAction
    /\ built = <<>>
    /\ response = NoResponse
    /\ renders = <<>>
    /\ store = <<>>
    /\ rowid = 0
    /\ dbcall = <<>>

\* the code generated for the nodes evaluates an expression that fails
RECURSIVE raises(_)
raises(nodes) ==
    \E i \in 1..Len(nodes) :
        \/ /\ nodes[i].kind = "Block"
           /\ \E k \in 1..Len(nodes[i].stmts) :
                 nodes[i].stmts[k].s = "Expr" /\ nodes[i].stmts[k].expr.x = "Raise"
        \/ nodes[i].kind = "Element" /\ raises(nodes[i].children)

\* the block left early hands the caller what it has accumulated
unwind_partial(buffer) == buffer

\* The block is left before its last expression: the local __html is dropped
\* with the frame and Fragment::new is never reached.
unwind(buffer) == NoFragment

\* html_impl: the invocation is parsed and expanded. A parse error, or an
\* error in the generated code, fails the build and nothing runs. Otherwise
\* the block starts: let mut __html = String::new()
HtmlMacro(d, e) ==
    /\ phase = "idle"
    /\ doc' = d
    /\ env' = e
    /\ IF ~parse_simple(d) THEN phase' = "parse_error" /\ pos' = 0
       ELSE IF ~Builds(d, e) THEN phase' = "compile_error" /\ pos' = 0
       ELSE phase' = "running" /\ pos' = 1
    /\ html' = <<>>
    /\ UNCHANGED <<fragment, calls, routes, registry, serveVars, htmxVars, errVars,
                   dbVars, concVars>>

\* the statements generated for the next node run
RenderStep ==
    /\ phase = "running"
    /\ pos <= Len(doc)
    /\ IF raises(<<doc[pos]>>)
       THEN /\ phase' = "failed"
            /\ fragment' = unwind(html)
            /\ html' = <<>>
            /\ UNCHANGED <<pos, calls>>
       ELSE /\ html' = html \o process_node(doc[pos], env)
            /\ calls' = calls \o invocations(<<doc[pos]>>, env)
            /\ pos' = pos + 1
            /\ UNCHANGED <<phase, fragment>>
    /\ UNCHANGED <<doc, env, routes, registry>>
    /\ UNCHANGED <<serveVars, htmxVars, errVars,
                   dbVars, concVars>>

\* ::acacia_core::Fragment::new(__html)
Finish ==
    /\ phase = "running"
    /\ pos > Len(doc)
    /\ fragment' = html
    /\ phase' = "done"
    /\ UNCHANGED <<doc, env, pos, html, calls, routes, registry>>
    /\ UNCHANGED <<serveVars, htmxVars, errVars,
                   dbVars, concVars>>

NextHtml ==
    \/ \E d \in Docs, e \in Envs : HtmlMacro(d, e)
    \/ RenderStep
    \/ Finish

SpecHtml == Init /\ [][NextHtml]_vars

(***************************************************************************)
(* route.rs: #[page] and #[action]. Each expands to the handler, a         *)
(* reverse-URL item named after the function (a constant Endpoint or a     *)
(* function returning one) and an inventory::submit! of a RouteDefinition. *)
(***************************************************************************)
NoItem == [kind |-> "none"]
Literal(text) == [seg |-> "Literal", text |-> text]
Parameter(name) == [seg |-> "Parameter", name |-> name]

\* the characters of the model's paths an identifier may hold
IdentChars == {"a", "b", "t", "v"}
\* format_ident!("{}", p) panics unless p is an identifier
valid_ident(p) == p # <<>> /\ \A i \in 1..Len(p) : p[i] \in IdentChars

\* the pieces between slashes that start with { and end with }
braced_pieces(path_str) ==
    SelectSeq(Split(path_str, "/"),
              LAMBDA piece : piece # <<>> /\ piece[1] = "{" /\ piece[Len(piece)] = "}")

\* path_params: path_str.split('/').filter(..).map(|s| s[1..s.len() - 1])
path_params(path_str) ==
    LET pieces == braced_pieces(path_str)
    IN [i \in 1..Len(pieces) |-> SubSeq(pieces[i], 2, Len(pieces[i]) - 1)]

\* url_expr: the pushes generated from path_str.split('{'): the first part as
\* it is, then for every later part the parameter up to } and the rest
url_expr(path_str) ==
    LET parts == Split(path_str, "{")
        later(part) ==
            LET end_brace == Find(part, "}")
            IN <<Parameter(SubSeq(part, 1, end_brace - 1)),
                 Literal(Drop(part, end_brace + 1))>>
    IN <<Literal(parts[1])>>
       \o Flatten([i \in 1..(Len(parts) - 1) |-> later(parts[i + 1])])

\* Where the expansion panics: s[1..s.len() - 1] on the piece "{", an
\* unwrap of find('}') on a part with no }, a format_ident! of a name that is
\* no identifier. The url code is generated only when there are parameters.
expansion_panics(path_str) ==
    \/ \E i \in 1..Len(braced_pieces(path_str)) : Len(braced_pieces(path_str)[i]) < 2
    \/ /\ path_params(path_str) # <<>>
       /\ \/ \E i \in 1..Len(path_params(path_str)) :
                ~valid_ident(path_params(path_str)[i])
          \/ LET parts == Split(path_str, "{")
             IN \E i \in 2..Len(parts) :
                   \/ Find(parts[i], "}") = 0
                   \/ ~valid_ident(SubSeq(parts[i], 1, Find(parts[i], "}") - 1))

\* the reverse-URL item: a constant without parameters, a function with them
endpoint_def(path_str, method) ==
    IF path_params(path_str) = <<>>
    THEN [kind |-> "const", path |-> path_str, method |-> method]
    ELSE [kind |-> "fn", params |-> path_params(path_str),
          body |-> url_expr(path_str), method |-> method]

\* rustc on the generated function: no parameter name bound twice, and every
\* name the body pushes is a parameter
rustc_accepts(item) ==
    item.kind = "fn" =>
        /\ \A i, j \in 1..Len(item.params) :
              item.params[i] = item.params[j] => i = j
        /\ \A k \in 1..Len(item.body) :
              item.body[k].seg = "Parameter" =>
                  item.body[k].name \in Range(item.params)

\* a call of the generated item: the path of the Endpoint it returns
RECURSIVE url_of(_, _, _)
url_of(body, params, args) ==
    IF body = <<>> THEN <<>>
    ELSE (IF Head(body).seg = "Literal" THEN Head(body).text
          ELSE args[CHOOSE i \in 1..Len(params) : params[i] = Head(body).name])
         \o url_of(Tail(body), params, args)

endpoint_path(item, args) ==
    IF item.kind = "const" THEN item.path ELSE url_of(item.body, item.params, args)

\* the method argument of #[action], as written; NoMethodArg when left out
NoMethodArg == "<none>"
to_uppercase(m) ==
    CASE m = "get" -> "GET"
      [] m = "post" -> "POST"
      [] m = "put" -> "PUT"
      [] m = "patch" -> "PATCH"
      [] m = "delete" -> "DELETE"
      [] m = "foo" -> "FOO"
      [] OTHER -> m

method_upper(method_arg) ==
    to_uppercase(IF method_arg = NoMethodArg THEN "POST" ELSE method_arg)

\* method_variant and axum_method: the method the route is registered under
method_variant(upper) ==
    IF upper \in {"GET", "POST", "PUT", "PATCH", "DELETE"} THEN upper ELSE "POST"

\* endpoint_const_constructor and endpoint_fn_constructor: the method of the
\* Endpoint the reverse-URL item builds
endpoint_constructor(upper) ==
    IF upper \in {"DELETE", "POST", "GET"} THEN upper ELSE "POST"

RouteDefinition(path, method) == [path |-> path, method |-> method]

\* What a declaration expands to: the outcome of the build, the reverse-URL
\* item and the RouteDefinition submitted.
expand(macro, path_str, method_arg, endpoint_method, route_method) ==
    LET item == endpoint_def(path_str, endpoint_method)
        outcome ==
            IF expansion_panics(path_str) THEN "panic"
            ELSE IF ~rustc_accepts(item) THEN "rustc_error"
            ELSE "ok"
    IN [macro |-> macro, path |-> path_str, method_arg |-> method_arg,
        outcome |-> outcome,
        item |-> IF outcome = "ok" THEN item ELSE NoItem,
        submitted |-> IF outcome = "ok"
                      THEN <<RouteDefinition(path_str, route_method)>>
                      ELSE <<>>]

page_impl(path_str) == expand("page", path_str, NoMethodArg, "GET", "GET")

action_impl(path_str, method_arg) ==
    expand("action", path_str, method_arg,
           endpoint_constructor(method_upper(method_arg)),
           method_variant(method_upper(method_arg)))

(***************************************************************************)
(* The path templates and methods the model declares routes with.          *)
(***************************************************************************)
Chunks ==
    {<<"/">>, <<"/", "t">>, <<"v">>, <<"{", "a", "}">>, <<"{", "b", "}">>,
     <<"/", "{", "a", "}">>, <<"/", "{", "b", "}">>, <<"{">>, <<"}">>}
\* every path starts with a slash
Paths ==
    {path_str \in {Flatten(cs) : cs \in SeqsUpTo(Chunks, MaxChunks)} :
        path_str # <<>> /\ path_str[1] = "/"}
MethodArgs ==
    {NoMethodArg, "GET", "POST", "PUT", "PATCH", "DELETE", "delete", "foo"}

\* #[page(path)] on a function
DeclarePage(path_str) ==
    /\ routes' = Append(routes, page_impl(path_str))
    /\ registry' = registry \o page_impl(path_str).submitted
    /\ UNCHANGED <<renderVars, serveVars, htmxVars, errVars,
                   dbVars, concVars>>

\* #[action(path, method = ..)] on a function
DeclareAction(path_str, method_arg) ==
    /\ routes' = Append(routes, action_impl(path_str, method_arg))
    /\ registry' = registry \o action_impl(path_str, method_arg).submitted
    /\ UNCHANGED <<renderVars, serveVars, htmxVars, errVars,
                   dbVars, concVars>>

\* one route declaration, of every template and method
NextRoute ==
    \/ \E path_str \in Paths : routes = <<>> /\ DeclarePage(path_str)
    \/ \E path_str \in Paths, method_arg \in MethodArgs :
          routes = <<>> /\ DeclareAction(path_str, method_arg)

SpecRoute == Init /\ [][NextRoute]_vars

(***************************************************************************)
(* acacia_server: Acacia::serve. The routes are submitted to inventory by   *)
(* static constructors before main runs; serve connects the database,      *)
(* builds the router from inventory::iter, binds the listener and serves.  *)
(***************************************************************************)
MaxRoutes == 2          \* route declarations in one program
MaxRequests == 1        \* requests served before the model stops counting

\* the sequence without the later copies of an element
RECURSIVE Dedup(_)
Dedup(seq) ==
    IF seq = <<>> THEN <<>>
    ELSE LET front == Dedup(SubSeq(seq, 1, Len(seq) - 1))
         IN IF seq[Len(seq)] \in Range(front) THEN front
            ELSE Append(front, seq[Len(seq)])

Orderings(seq) ==
    {[i \in 1..Len(seq) |-> seq[f[i]]] : f \in Permutations(1..Len(seq))}

\* an enumeration that keeps one copy of equal definitions
enumerations_deduplicated(submitted) == Orderings(Dedup(submitted))

\* inventory::iter::<RouteDefinition>: every submitted definition once per
\* submission. inventory links the definitions in the order the static
\* constructors happen to run and promises no order of iteration.
enumerations(submitted) == Orderings(submitted)

\* only the opening brace is rewritten
axum_path_keep_brace(path) == Replace(path, "{", <<":">>)

\* route_def.path.replace('{', ":").replace('}', "")
axum_path(path) == Replace(Replace(path, "{", <<":">>), "}", <<>>)

RouteEntry(path, method) == [path |-> path, method |-> method]

\* router.route("/__acacia__/htmx.min.js", get(serve_htmx))
HtmxJsRoute ==
    RouteEntry(<<"/", "_", "_", "a", "c", "a", "c", "i", "a", "_", "_", "/",
                 "h", "t", "m", "x", ".", "m", "i", "n", ".", "j", "s">>, "GET")

\* the path as the router's tree sees it: a capture whatever its name
Shape(path) ==
    LET pieces == Split(path, "/")
    IN [k \in 1..Len(pieces) |->
           IF pieces[k] # <<>> /\ pieces[k][1] = ":" THEN <<":">> ELSE pieces[k]]

\* Router::route panics when the method is already routed for the path, or
\* when the path conflicts with a capture already in the tree
route_panics(table, entry) ==
    \E k \in 1..Len(table) :
        IF table[k].path = entry.path THEN table[k].method = entry.method
        ELSE Shape(table[k].path) = Shape(entry.path)
             /\ \E j \in 1..Len(Shape(entry.path)) : Shape(entry.path)[j] = <<":">>

\* the bind does not wait for the loop
loop_done_early(table, defs) == TRUE

\* the for loop over inventory::iter has run to its end
loop_done(table, defs) == Len(table) = 1 + Len(defs)

\* serve, up to the loop: the database is connected (expect panics when it
\* fails), the router is created with the HTMX route
ServeBegin ==
    /\ server = "off"
    /\ \E connected \in BOOLEAN :
          IF connected
          THEN /\ server' = "routing"
               /\ router' = <<HtmxJsRoute>>
               /\ enumerated' \in enumerations(registry)
          ELSE /\ server' = "panicked"
               /\ UNCHANGED <<router, enumerated>>
    /\ UNCHANGED <<renderVars, routes, registry, requests, htmxVars, errVars,
                   dbVars, concVars>>

\* one turn of the loop: router = router.route(&axum_path, handler)
AddRoute ==
    /\ server = "routing"
    /\ ~loop_done(router, enumerated)
    /\ LET route_def == enumerated[Len(router)]
           entry == RouteEntry(axum_path(route_def.path), route_def.method)
       IN IF route_panics(router, entry)
          THEN server' = "panicked" /\ router' = router
          ELSE server' = server /\ router' = Append(router, entry)
    /\ UNCHANGED <<renderVars, routes, registry, enumerated, requests,
                   htmxVars, errVars,
                   dbVars, concVars>>

\* the address is parsed and TcpListener::bind awaited; expect panics on failure
Bind ==
    /\ server = "routing"
    /\ loop_done(router, enumerated)
    /\ \E bound \in BOOLEAN : server' = IF bound THEN "bound" ELSE "panicked"
    /\ UNCHANGED <<renderVars, routes, registry, enumerated, router, requests,
                   htmxVars, errVars,
                   dbVars, concVars>>

\* axum::serve(listener, app)
Serve ==
    /\ server = "bound"
    /\ server' = "serving"
    /\ UNCHANGED <<renderVars, routes, registry, enumerated, router, requests,
                   htmxVars, errVars,
                   dbVars, concVars>>

\* a request is dispatched against the table
Request ==
    /\ server = "serving"
    /\ requests < MaxRequests
    /\ requests' = requests + 1
    /\ UNCHANGED <<renderVars, routes, registry, server, enumerated, router,
                   htmxVars, errVars,
                   dbVars, concVars>>

\* the templates and methods of the programs served
ServePaths ==
    {<<"/", "t">>, <<"/", "t", "}">>, <<"/", "t", "/", "{", "a", "}">>,
     <<"/", "t", "/", "{", "a", "}", "v">>,
     <<"/", "{", "a", "}", "/", "{", "b", "}">>}
ServeMethodArgs == {NoMethodArg, "DELETE"}

NextServe ==
    \/ \E path_str \in ServePaths :
          server = "off" /\ Len(routes) < MaxRoutes /\ DeclarePage(path_str)
    \/ \E path_str \in ServePaths, method_arg \in ServeMethodArgs :
          server = "off" /\ Len(routes) < MaxRoutes
            /\ DeclareAction(path_str, method_arg)
    \/ ServeBegin
    \/ AddRoute
    \/ Bind
    \/ Serve
    \/ Request

SpecServe == Init /\ [][NextServe]_vars

(***************************************************************************)
(* The HtmxAction builder in use: one builder expression from its          *)
(* constructor through its setters to its builds.                          *)
(***************************************************************************)
MaxSetters == 2         \* setter calls chained on one builder
MaxBuilds == 2          \* times one builder is built

\* The endpoints, targets and selectors the model builds actions from.
EndpointPaths == {<<"/", "t">>, <<"/", "t", "/", "1">>}
Endpoints == {Endpoint(path, method) : path \in EndpointPaths, method \in Methods}
Selectors == {<<"#", "x">>}
Targets == {This, Parent} \cup {Closest(<<"l", "i">>)} \cup {Selector(sel) : sel \in Selectors}

\* The builder expression at hand: the constructor it began with, the number
\* of setters chained on it, and the HtmxAction it evaluates to.
Expression(origin, endpoint, action) ==
    [origin |-> origin, of |-> endpoint, setters |-> 0, action |-> action]

Construct(origin, endpoint, action) ==
    /\ hx = NoAction
    /\ hx' = Expression(origin, endpoint, action)
    /\ UNCHANGED <<built, renderVars, routes, registry, serveVars, errVars,
                   dbVars, concVars>>

Chain(action) ==
    /\ hx # NoAction
    /\ built = <<>>
    /\ hx.setters < MaxSetters
    /\ hx' = [hx EXCEPT !.action = action, !.setters = @ + 1]
    /\ UNCHANGED <<built, renderVars, routes, registry, serveVars, errVars,
                   dbVars, concVars>>

\* .build(), or the Display of the action: the builder is only borrowed
Build ==
    /\ hx # NoAction
    /\ Len(built) < MaxBuilds
    /\ built' = Append(built, [of |-> hx.action, out |-> build(hx.action)])
    /\ UNCHANGED <<hx, renderVars, routes, registry, serveVars, errVars,
                   dbVars, concVars>>

NextHtmx ==
    \/ \E e \in Endpoints : Construct("new", e, HtmxAction_new(e))
    \/ \E e \in Endpoints : Construct("loads", e, loads(e))
    \/ \E e \in Endpoints : Construct("submits", e, submits(e))
    \/ \E e \in Endpoints : Construct("removes", e, removes(e))
    \/ \E t \in Targets : hx # NoAction /\ Chain(target(hx.action, t))
    \/ \E sel \in Selectors : hx # NoAction /\ Chain(into(hx.action, sel))
    \/ \E s \in Swaps : hx # NoAction /\ Chain(swap(hx.action, s))
    \/ hx # NoAction /\ Chain(append(hx.action))
    \/ hx # NoAction /\ Chain(prepend(hx.action))
    \/ Build

SpecHtmx == Init /\ [][NextHtmx]_vars

(***************************************************************************)
(* acacia_core: AppError and its conversion to a response; acacia_db: the  *)
(* conversion of a DbError into an AppError by the ? of a handler.         *)
(***************************************************************************)
UnitError(variant) == [variant |-> variant]
MessageError(variant, msg) == [variant |-> variant, msg |-> msg]

AppErrors ==
    {UnitError(v) : v \in {"NotFound", "Unauthorized", "Forbidden"}}
    \cup {MessageError(v, msg) :
            v \in {"BadRequest", "Conflict", "Internal", "Database"}, msg \in Texts}

DbErrors ==
    {UnitError("NotFound")}
    \cup {MessageError(v, msg) : v \in {"Connection", "Query"}, msg \in Texts}

\* status_code with Conflict classified as a bad request
status_code_conflict_as_bad_request(self) ==
    CASE self.variant = "NotFound" -> 404
      [] self.variant \in {"BadRequest", "Conflict"} -> 400
      [] self.variant = "Unauthorized" -> 401
      [] self.variant = "Forbidden" -> 403
      [] self.variant \in {"Internal", "Database"} -> 500

\* AppError::status_code
status_code(self) ==
    CASE self.variant = "NotFound" -> 404
      [] self.variant = "BadRequest" -> 400
      [] self.variant = "Unauthorized" -> 401
      [] self.variant = "Forbidden" -> 403
      [] self.variant = "Conflict" -> 409
      [] self.variant \in {"Internal", "Database"} -> 500

\* AppError::message
message(self) ==
    CASE self.variant = "NotFound" -> <<"N", "o", "t", " ", "f", "o", "u", "n", "d">>
      [] self.variant = "Unauthorized" -> <<"U", "n", "a", "u", "t", "h", "o", "r", "i", "z", "e", "d">>
      [] self.variant = "Forbidden" -> <<"F", "o", "r", "b", "i", "d", "d", "e", "n">>
      [] OTHER -> self.msg

\* the text of the error fragment before and after the message
ErrorOpen ==
    <<"<", "d", "i", "v", " ", "s", "t", "y", "l", "e", "=", "\"", "p", "a",
      "d", "d", "i", "n", "g", ":", " ", "2", "0", "p", "x", ";", " ",
      "c", "o", "l", "o", "r", ":", " ", "#", "7", "2", "1", "c", "2",
      "4", ";", " ", "b", "a", "c", "k", "g", "r", "o", "u", "n", "d",
      ":", " ", "#", "f", "8", "d", "7", "d", "a", ";", " ", "b", "o",
      "r", "d", "e", "r", ":", " ", "1", "p", "x", " ", "s", "o", "l",
      "i", "d", " ", "#", "f", "5", "c", "6", "c", "b", ";", " ", "b",
      "o", "r", "d", "e", "r", "-", "r", "a", "d", "i", "u", "s", ":",
      " ", "4", "p", "x", ";", "\"", ">", "\n", " ", " ", " ", " ", " ",
      " ", " ", " ", " ", " ", " ", " ", " ", " ", " ", " ", "<", "s",
      "t", "r", "o", "n", "g", ">", "E", "r", "r", "o", "r", ":", "<",
      "/", "s", "t", "r", "o", "n", "g", ">", " ">>
ErrorClose ==
    <<"\n", " ", " ", " ", " ", " ", " ", " ", " ", " ", " ", " ", " ", "<",
      "/", "d", "i", "v", ">">>

\* impl IntoResponse for AppError: (status, Html(body))
into_response(self) ==
    [status |-> status_code(self),
     body |-> ErrorOpen \o message(self) \o ErrorClose]

\* impl From<DbError> for AppError
from_db_error(err) ==
    CASE err.variant = "NotFound" -> UnitError("NotFound")
      [] err.variant = "Connection" -> MessageError("Database", err.msg)
      [] err.variant = "Query" -> MessageError("Database", err.msg)

\* a handler returns Err(e): the error becomes the response
HandlerFails(e) ==
    /\ response' = [error |-> e, db |-> None, sent |-> into_response(e)]
    /\ UNCHANGED <<renderVars, routes, registry, serveVars, htmxVars,
                   dbVars, concVars>>

\* a database call in a handler fails and ? converts the error
DbCallFails(err) ==
    /\ response' = [error |-> from_db_error(err), db |-> Some(err),
                    sent |-> into_response(from_db_error(err))]
    /\ UNCHANGED <<renderVars, routes, registry, serveVars, htmxVars,
                   dbVars, concVars>>

NextError ==
    \/ \E e \in AppErrors : HandlerFails(e)
    \/ \E err \in DbErrors : DbCallFails(err)

SpecError == Init /\ [][NextError]_vars

(***************************************************************************)
(* html! in handlers that run concurrently: every invocation is a block of *)
(* its own, with its own __html, running one statement at a time between   *)
(* the statements of the others.                                           *)
(***************************************************************************)
MaxRenders == 2         \* renders in flight together

\* every render appends to the buffer of the first one
buffer_shared(r) == 1

\* let mut __html = String::new(): the buffer of render r is a local of its
\* own block
buffer_of(r) == r

\* the markup of the concurrent handlers
ConcurrentDocs ==
    {<<Text(<<"a">>), Block(<<ExprStmt(Var)>>)>>,
     <<Block(<<ExprStmt(Var)>>), Block(<<ExprStmt(Lit(I32(7)))>>)>>,
     <<Element(n_div, "OpenClose", <<>>, <<Block(<<ExprStmt(Var)>>)>>),
       Text(<<"a">>)>>}

\* a handler reaches its html! invocation
StartRender(d, e) ==
    /\ Len(renders) < MaxRenders
    /\ renders' = Append(renders, [doc |-> d, env |-> e, pos |-> 1,
                                   html |-> <<>>, fragment |-> NoFragment])
    /\ UNCHANGED <<renderVars, routes, registry, serveVars, htmxVars, errVars,
                   dbVars>>

\* the statements of the next node of render r run
StepRender(r) ==
    /\ renders[r].pos <= Len(renders[r].doc)
    /\ LET out == process_node(renders[r].doc[renders[r].pos], renders[r].env)
           appended == [renders EXCEPT ![buffer_of(r)].html = @ \o out]
       IN renders' = [appended EXCEPT ![r].pos = @ + 1]
    /\ UNCHANGED <<renderVars, routes, registry, serveVars, htmxVars, errVars,
                   dbVars>>

\* Fragment::new(__html) of render r
FinishRender(r) ==
    /\ renders[r].pos > Len(renders[r].doc)
    /\ renders[r].fragment = NoFragment
    /\ renders' = [renders EXCEPT ![r].fragment = renders[buffer_of(r)].html]
    /\ UNCHANGED <<renderVars, routes, registry, serveVars, htmxVars, errVars,
                   dbVars>>

NextConcurrent ==
    \/ \E d \in ConcurrentDocs, e \in Envs : StartRender(d, e)
    \/ \E r \in 1..Len(renders) : StepRender(r)
    \/ \E r \in 1..Len(renders) : FinishRender(r)

SpecConcurrent == Init /\ [][NextConcurrent]_vars

(***************************************************************************)
(* acacia_db: Db::insert and Db::update of src/acacia_db/src/lib.rs, as    *)
(* the statements they await on the connection all clones of Db share.     *)
(* Handlers are separate tasks: the statements of one call run between the *)
(* statements of another.                                                  *)
(***************************************************************************)
MaxDbCalls == 2         \* insert and update calls made on the connection

\* struct Task { id, title, done } of the example, table "tasks"
Task(id, title, done) == [id |-> id, title |-> title, done |-> done]
NoRow == Task(0, "", FALSE)

\* Result<M>
Pending == [kind |-> "Pending", row |-> NoRow]
Ok(row) == [kind |-> "Ok", row |-> row]
Err(variant) == [kind |-> variant, row |-> NoRow]

\* NewTask { title }
Forms == {"a", "b"}
Keys == {1, 2}

\* the closures handed to update: |t| t.done = !t.done of toggle_task, one
\* that sets the title, one that changes nothing
Mutations == {"toggle", "rename", "keep"}

mutate(f, record) ==
    CASE f = "toggle" -> [record EXCEPT !.done = ~@]
      [] f = "rename" -> [record EXCEPT !.title = "z"]
      [] f = "keep" -> record

\* SELECT * FROM tasks WHERE id = ?
get(table, key) ==
    IF \E i \in 1..Len(table) : table[i].id = key
    THEN Some(table[CHOOSE i \in 1..Len(table) : table[i].id = key])
    ELSE None

\* db.insert::<Task, _>(form) is called
CallInsert(form) ==
    /\ Len(dbcall) < MaxDbCalls
    /\ dbcall' = Append(dbcall,
                        [op |-> "insert", form |-> form, key |-> 0, f |-> "keep",
                         pc |-> "execute", before |-> NoRow, record |-> NoRow,
                         id |-> 0, inserted |-> 0, writes |-> 0,
                         result |-> Pending])
    /\ UNCHANGED <<renderVars, routes, registry, serveVars, htmxVars, errVars,
                   store, rowid, concVars>>

\* INSERT INTO tasks (title) VALUES (?): the connection's last insert rowid
\* becomes the id of the new row
InsertExecute(c) ==
    /\ dbcall[c].op = "insert" /\ dbcall[c].pc = "execute"
    /\ LET id == Len(store) + 1
       IN /\ store' = Append(store, Task(id, dbcall[c].form, FALSE))
          /\ rowid' = id
          /\ dbcall' = [dbcall EXCEPT ![c].inserted = id, ![c].writes = @ + 1,
                                      ![c].pc = "last_id"]
    /\ UNCHANGED <<renderVars, routes, registry, serveVars, htmxVars, errVars,
                   concVars>>

\* SELECT last_insert_rowid() as id
InsertLastId(c) ==
    /\ dbcall[c].op = "insert" /\ dbcall[c].pc = "last_id"
    /\ dbcall' = [dbcall EXCEPT ![c].id = rowid, ![c].pc = "select"]
    /\ UNCHANGED <<renderVars, routes, registry, serveVars, htmxVars, errVars,
                   store, rowid, concVars>>

\* SELECT * FROM tasks WHERE id = ?, .ok_or(DbError::NotFound)?, from_row
InsertSelect(c) ==
    /\ dbcall[c].op = "insert" /\ dbcall[c].pc = "select"
    /\ LET result == get(store, dbcall[c].id)
       IN dbcall' = [dbcall EXCEPT
                       ![c].result = IF result = None THEN Err("NotFound")
                                     ELSE Ok(result[1]),
                       ![c].pc = "done"]
    /\ UNCHANGED <<renderVars, routes, registry, serveVars, htmxVars, errVars,
                   store, rowid, concVars>>

\* db.update::<Task, _>(key, f) is called
CallUpdate(key, f) ==
    /\ Len(dbcall) < MaxDbCalls
    /\ dbcall' = Append(dbcall,
                        [op |-> "update", form |-> "", key |-> key, f |-> f,
                         pc |-> "get", before |-> NoRow, record |-> NoRow,
                         id |-> 0, inserted |-> 0, writes |-> 0,
                         result |-> Pending])
    /\ UNCHANGED <<renderVars, routes, registry, serveVars, htmxVars, errVars,
                   store, rowid, concVars>>

\* let mut record = self.get(key).await?.ok_or(DbError::NotFound)?;
\* f(&mut record);
UpdateGet(c) ==
    /\ dbcall[c].op = "update" /\ dbcall[c].pc = "get"
    /\ LET result == get(store, dbcall[c].key)
       IN dbcall' = IF result = None
                    THEN [dbcall EXCEPT ![c].result = Err("NotFound"),
                                        ![c].pc = "done"]
                    ELSE [dbcall EXCEPT ![c].before = result[1],
                                        ![c].record = mutate(dbcall[c].f, result[1]),
                                        ![c].pc = "execute"]
    /\ UNCHANGED <<renderVars, routes, registry, serveVars, htmxVars, errVars,
                   store, rowid, concVars>>

\* UPDATE tasks SET done = NOT done WHERE id = ?: the statement does not use
\* the record the closure changed
UpdateExecute(c) ==
    /\ dbcall[c].op = "update" /\ dbcall[c].pc = "execute"
    /\ store' = [i \in 1..Len(store) |->
                    IF store[i].id = dbcall[c].key
                    THEN [store[i] EXCEPT !.done = ~@]
                    ELSE store[i]]
    /\ dbcall' = [dbcall EXCEPT ![c].writes = @ + 1, ![c].pc = "reget"]
    /\ UNCHANGED <<renderVars, routes, registry, serveVars, htmxVars, errVars,
                   rowid, concVars>>

\* self.get(key).await?.ok_or(DbError::NotFound)
UpdateReget(c) ==
    /\ dbcall[c].op = "update" /\ dbcall[c].pc = "reget"
    /\ LET result == get(store, dbcall[c].key)
       IN dbcall' = [dbcall EXCEPT
                       ![c].result = IF result = None THEN Err("NotFound")
                                     ELSE Ok(result[1]),
                       ![c].pc = "done"]
    /\ UNCHANGED <<renderVars, routes, registry, serveVars, htmxVars, errVars,
                   store, rowid, concVars>>

NextDb ==
    \/ \E form \in Forms : CallInsert(form)
    \/ \E key \in Keys, f \in Mutations : CallUpdate(key, f)
    \/ \E c \in 1..Len(dbcall) : InsertExecute(c)
    \/ \E c \in 1..Len(dbcall) : InsertLastId(c)
    \/ \E c \in 1..Len(dbcall) : InsertSelect(c)
    \/ \E c \in 1..Len(dbcall) : UpdateGet(c)
    \/ \E c \in 1..Len(dbcall) : UpdateExecute(c)
    \/ \E c \in 1..Len(dbcall) : UpdateReget(c)

SpecDb == Init /\ [][NextDb]_vars

(***************************************************************************)
(* Properties of the render.                                               *)
(***************************************************************************)
\* x is one character reference: & up to ; with no special character between
IsEntity(x) ==
    /\ Len(x) >= 3
    /\ x[1] = "&"
    /\ x[Len(x)] = ";"
    /\ \A i \in 2..(Len(x) - 1) : x[i] \notin Special \cup {";"}

\* out is v with every special character replaced by a character reference
\* and every other character copied
RECURSIVE EscapedAs(_, _)
EscapedAs(v, out) ==
    IF v = <<>> THEN out = <<>>
    ELSE IF Head(v) \notin Special
         THEN out # <<>> /\ Head(out) = Head(v) /\ EscapedAs(Tail(v), Tail(out))
         ELSE \E k \in 3..Len(out) :
                /\ IsEntity(SubSeq(out, 1, k))
                /\ EscapedAs(Tail(v), Drop(out, k + 1))

\* the render of a document of one node has finished
RenderedOne == phase = "done" /\ Len(doc) = 1

IsExprBlock(node) ==
    /\ node.kind = "Block"
    /\ Len(node.stmts) = 1
    /\ node.stmts[1].s = "Expr"
    /\ node.stmts[1].expr.x \in {"Lit", "Var"}

IsLiteralElement(node) ==
    node.kind = "Element" /\ ~is_uppercase(node.name[1])

\* what follows the attributes of an element without children
TagEnd(name) ==
    IF name \in VoidNames THEN <<" ", "/", ">">>
    ELSE <<">", "<", "/">> \o name \o <<">">>

\* the opening tag of a rendered element: up to the first >
OpenTag(out) == SubSeq(out, 1, Find(out, ">"))

\* C1: a text value rendered through a generic expression block shows each of
\* & < > " ' only as a character reference; a number or a boolean renders as
\* its plain text; a Fragment's content is emitted as it is.
C1_ScalarsEscaped ==
    (RenderedOne /\ IsExprBlock(doc[1])) =>
        LET v == Eval(doc[1].stmts[1].expr, env)
        IN CASE v.t = "String" -> EscapedAs(v.s, fragment)
             [] v.t = "i32" -> fragment = IntToString(v.n)
             [] v.t = "bool" -> fragment = BoolToString(v.b)
             [] v.t = "Fragment" -> fragment = v.s

\* C2: a literal attribute with a value renders as space, name, =", the value
\* with each of & < > " ' replaced by a character reference, and a closing ".
C2_AttributeValueEscaped ==
    (/\ RenderedOne
     /\ IsLiteralElement(doc[1])
     /\ doc[1].children = <<>>
     /\ Len(doc[1].attributes) = 1
     /\ doc[1].attributes[1].a = "Attribute"
     /\ doc[1].attributes[1].key \notin {n_checked, n_disabled, n_selected, n_readonly}
     /\ doc[1].attributes[1].value # NoValue) =>
        LET attr == doc[1].attributes[1]
            v == to_string(Eval(attr.value, env))
            open == <<"<">> \o doc[1].name \o <<" ">> \o attr.key \o <<"=", "\"">>
            close == <<"\"">> \o TagEnd(doc[1].name)
            n == Len(fragment)
        IN /\ n >= Len(open) + Len(close)
           /\ SubSeq(fragment, 1, Len(open)) = open
           /\ SubSeq(fragment, n - Len(close) + 1, n) = close
           /\ EscapedAs(v, SubSeq(fragment, Len(open) + 1, n - Len(close)))

\* the attributes of a rendered element all have a name, no name twice
NamedDistinctAttributes(el) ==
    /\ \A i \in 1..Len(el.attributes) : el.attributes[i].a = "Attribute"
    /\ \A i, j \in 1..Len(el.attributes) :
          el.attributes[i].key = el.attributes[j].key => i = j

\* C3: an attribute named checked, disabled, selected or readonly with a value
\* expression leaves no trace of its name in the opening tag when the
\* expression is false, and appears exactly once, after a space and with no
\* =value, when it is true.
C3_BooleanAttribute ==
    (RenderedOne /\ IsLiteralElement(doc[1]) /\ NamedDistinctAttributes(doc[1])) =>
        \A i \in 1..Len(doc[1].attributes) :
            LET attr == doc[1].attributes[i]
                open == OpenTag(fragment)
                at == Occurrences(attr.key, open)
            IN (/\ attr.key \in {n_checked, n_disabled, n_selected, n_readonly}
                /\ attr.value # NoValue) =>
                    IF Eval(attr.value, env).b
                    THEN /\ Cardinality(at) = 1
                         /\ \A k \in at :
                               /\ open[k - 1] = " "
                               /\ open[k + Len(attr.key)] # "="
                    ELSE at = {}

C3_Witness ==
    /\ RenderedOne
    /\ IsLiteralElement(doc[1])
    /\ Len(doc[1].attributes) = 2
    /\ doc[1].attributes[1] = Attribute(n_checked, Braced(Lit(Bool(TRUE))))
    /\ doc[1].attributes[2] = Attribute(n_disabled, Braced(Lit(Bool(FALSE))))
    /\ fragment = <<"<">> \o n_input \o <<" ">> \o n_checked \o <<" ", "/", ">">>

\* the tags of the elements of a tree that start with an uppercase letter,
\* and of those that do not, in document order (a component's children are
\* not part of the output)
RECURSIVE TagsOf(_, _)
TagsOf(nodes, upper) ==
    LET one(node) ==
            IF node.kind # "Element" THEN <<>>
            ELSE IF is_uppercase(node.name[1])
                 THEN IF upper THEN <<node.name>> ELSE <<>>
                 ELSE (IF upper THEN <<>> ELSE <<node.name>>)
                      \o TagsOf(node.children, upper)
    IN Flatten([i \in 1..Len(nodes) |-> one(nodes[i])])

\* C4: an element whose tag starts with an uppercase letter is dispatched as a
\* component call and its tag is never written as <Tag (or the build fails);
\* an element whose tag starts otherwise is written as a literal tag and
\* calls nothing.
C4_UppercaseIsComponent ==
    (RenderedOne /\ doc[1].kind = "Element") =>
        /\ [i \in 1..Len(calls) |-> calls[i].fn] = TagsOf(doc, TRUE)
        /\ \A name \in Range(TagsOf(doc, TRUE)) :
              Occurrences(<<"<">> \o name, fragment) = {}
        /\ \A name \in Range(TagsOf(doc, FALSE)) :
              /\ Occurrences(<<"<">> \o name, fragment) # {}
              /\ name \in VoidNames \/ Occurrences(<<"<", "/">> \o name, fragment) # {}
        /\ ~is_uppercase(doc[1].name[1]) =>
              SubSeq(fragment, 1, 1 + Len(doc[1].name)) = <<"<">> \o doc[1].name

C4_Witness ==
    /\ RenderedOne
    /\ doc[1].kind = "Element"
    /\ doc[1].name = n_div
    /\ TagsOf(doc, TRUE) = <<n_Logo>>
    /\ Len(calls) = 1
    /\ fragment = <<"<">> \o n_div \o <<">", "<">> \o n_hr \o <<" ", "/", ">", "<">>
                  \o n_br \o <<" ", "/", ">", "<", "/">> \o n_div \o <<">">>

\* C5: a component invocation passes every prop listed on the tag to the
\* function, by name.
C5_EveryPropReachesComponent ==
    (RenderedOne /\ doc[1].kind = "Element" /\ is_uppercase(doc[1].name[1])) =>
        /\ Len(calls) = 1
        /\ calls[1].fn = doc[1].name
        /\ Len(calls[1].args) = Len(doc[1].attributes)
        /\ \A i \in 1..Len(doc[1].attributes) :
              doc[1].attributes[i].a = "Attribute" =>
                  /\ calls[1].args[i].named
                  /\ calls[1].args[i].name = doc[1].attributes[i].key

\* the parse of a document of one element has been decided
ParsedOne ==
    /\ phase \in {"done", "parse_error", "compile_error"}
    /\ Len(doc) = 1
    /\ doc[1].kind = "Element"

\* C6 as stated: an element without a matching close tag is accepted exactly
\* when its tag is one of the thirteen names.
C6_NoCloseTagIffVoid ==
    (ParsedOne /\ doc[1].form # "OpenClose") =>
        (phase # "parse_error" <=> doc[1].name \in VoidNames)

\* C6, amended: an element written as an open tag with neither /> nor a close
\* tag is accepted exactly when its tag is one of the thirteen names, and a
\* rejected one produces no output; an element closed in its open tag with />
\* is accepted whatever its tag.
C6_OpenOnlyIffVoid ==
    ParsedOne =>
        /\ doc[1].form = "OpenOnly" =>
              (phase # "parse_error" <=> doc[1].name \in VoidNames)
        /\ doc[1].form = "SelfSlash" => phase # "parse_error"
        /\ phase = "parse_error" => (fragment = NoFragment /\ html = <<>>)

C6_Witness ==
    /\ ParsedOne
    /\ doc[1] = Element(n_br, "OpenOnly", <<>>, <<>>)
    /\ fragment = <<"<">> \o n_br \o <<" ", "/", ">">>

\* a document that is one block, alone or between two texts
BlockAt == IF Len(doc) = 1 THEN 1 ELSE 2
IsControlFlowDoc(x) ==
    /\ phase = "done"
    /\ Len(doc) \in {1, 3}
    /\ doc[BlockAt].kind = "Block"
    /\ Len(doc[BlockAt].stmts) = 1
    /\ doc[BlockAt].stmts[1].s = "Expr"
    /\ doc[BlockAt].stmts[1].expr.x = x
    /\ Len(doc) = 3 => (doc[1].kind = "Text" /\ doc[3].kind = "Text")
\* what the block of such a document appended
BlockOutput ==
    IF Len(doc) = 1 THEN fragment
    ELSE SubSeq(fragment, Len(doc[1].value) + 1, Len(fragment) - Len(doc[3].value))

\* the body rendered for x, then for y, ...
RECURSIVE BodyForEach(_, _)
BodyForEach(body, iter) ==
    IF iter = <<>> THEN <<>>
    ELSE parse_block_body(body, Head(iter)) \o BodyForEach(body, Tail(iter))

\* C7: a For block over an empty sequence appends nothing; over [x, y] it
\* appends the body rendered with the binding x immediately followed by the
\* body rendered with the binding y.
C7_ForInOrder ==
    IsControlFlowDoc("ForLoop") =>
        LET for_loop == doc[BlockAt].stmts[1].expr
        IN /\ BlockOutput = BodyForEach(for_loop.body, for_loop.iter)
           /\ for_loop.iter = <<>> => BlockOutput = <<>>
           /\ Len(for_loop.iter) = 2 =>
                 BlockOutput = parse_block_body(for_loop.body, for_loop.iter[1])
                               \o parse_block_body(for_loop.body, for_loop.iter[2])

C7_Witness ==
    /\ IsControlFlowDoc("ForLoop")
    /\ Len(doc) = 1
    /\ doc[1].stmts[1].expr.iter = <<Str(<<"<">>), I32(7)>>
    /\ fragment = <<"<">> \o n_li \o <<">", "&", "l", "t", ";", "<", "/">> \o n_li \o <<">">>
                  \o <<"<">> \o n_li \o <<">", "7", "<", "/">> \o n_li \o <<">">>

\* the branch an If selects: then when the condition holds, otherwise the
\* else body, an else-if decided the same way, nothing without an else
RECURSIVE SelectedBranch(_)
SelectedBranch(if_expr) ==
    IF if_expr.cond THEN if_expr.then_branch
    ELSE IF if_expr.else_branch = NoElse THEN <<>>
    ELSE IF if_expr.else_branch.x = "If" THEN SelectedBranch(if_expr.else_branch)
    ELSE if_expr.else_branch.stmts

Malformed == [seg |-> "Malformed"]

\* The specification's split of a template, scanning left to right: text
\* outside {..} is a Literal, text inside is a Parameter; an unmatched { or },
\* or a name that is no identifier, makes the template malformed.
RECURSIVE Segments(_)
Segments(t) ==
    IF t = <<>> THEN <<>>
    ELSE LET open == Find(t, "{")
             close == Find(t, "}")
         IN IF open = 0
            THEN IF close = 0 THEN <<Literal(t)>> ELSE <<Malformed>>
            ELSE IF close < open THEN <<Malformed>>
            ELSE IF ~valid_ident(SubSeq(t, open + 1, close - 1)) THEN <<Malformed>>
            ELSE (IF open > 1 THEN <<Literal(SubSeq(t, 1, open - 1))>> ELSE <<>>)
                 \o <<Parameter(SubSeq(t, open + 1, close - 1))>>
                 \o Segments(Drop(t, close + 1))

Placeholders(t) ==
    LET ps == SelectSeq(Segments(t), LAMBDA seg : seg.seg = "Parameter")
    IN [i \in 1..Len(ps) |-> ps[i].name]

\* a template the specification supports: well formed, no name twice
Supported(t) ==
    /\ Malformed \notin Range(Segments(t))
    /\ \A i, j \in 1..Len(Placeholders(t)) :
          Placeholders(t)[i] = Placeholders(t)[j] => i = j

\* the template with the i-th argument in place of the i-th placeholder
RECURSIVE Substituted(_, _)
Substituted(segs, args) ==
    IF segs = <<>> THEN <<>>
    ELSE IF Head(segs).seg = "Literal"
         THEN Head(segs).text \o Substituted(Tail(segs), args)
         ELSE Head(args) \o Substituted(Tail(segs), Tail(args))

\* the string forms of test arguments
ArgTexts == {<<"1">>, <<"2", "x">>}

\* C9: a reverse-URL constant, with the template as its path, is generated
\* exactly for the templates without a placeholder; a template with a
\* placeholder anywhere yields a function with one argument per placeholder.
C9_ConstantIffNoPlaceholder ==
    \A i \in 1..Len(routes) :
        Supported(routes[i].path) =>
            /\ routes[i].outcome = "ok"
            /\ routes[i].item.kind = "const" <=> Placeholders(routes[i].path) = <<>>
            /\ routes[i].item.kind = "const" => routes[i].item.path = routes[i].path
            /\ routes[i].item.kind = "fn" =>
                  Len(routes[i].item.params) = Len(Placeholders(routes[i].path))

\* C10: for a template with parameters the i-th argument of the generated
\* function is the i-th placeholder of the template, left to right, and the
\* path returned is the template with the i-th argument's string form in
\* place of the i-th placeholder.
C10_ArgumentsInTemplateOrder ==
    \A i \in 1..Len(routes) :
        (Supported(routes[i].path) /\ Placeholders(routes[i].path) # <<>>) =>
            /\ routes[i].outcome = "ok"
            /\ routes[i].item.kind = "fn"
            /\ routes[i].item.params = Placeholders(routes[i].path)
            /\ \A args \in [1..Len(Placeholders(routes[i].path)) -> ArgTexts] :
                  endpoint_path(routes[i].item, args)
                    = Substituted(Segments(routes[i].path), args)

\* no placeholder is directly followed by another one
Delimited(segs) ==
    \A k \in 1..(Len(segs) - 1) :
        ~(segs[k].seg = "Parameter" /\ segs[k + 1].seg = "Parameter")

NoMatch == <<"no match">>

\* Reading a concrete path back against the segments of its template: a
\* literal must be met as it is, a placeholder takes the text up to the next
\* literal (the last one takes the rest). The values read, or NoMatch.
RECURSIVE Reparse(_, _)
Reparse(segs, path) ==
    IF segs = <<>> THEN (IF path = <<>> THEN <<>> ELSE <<NoMatch>>)
    ELSE IF Head(segs).seg = "Literal"
    THEN LET text == Head(segs).text
         IN IF Len(path) >= Len(text) /\ SubSeq(path, 1, Len(text)) = text
            THEN Reparse(Tail(segs), Drop(path, Len(text) + 1))
            ELSE <<NoMatch>>
    ELSE IF Tail(segs) = <<>> THEN <<path>>
    ELSE LET found == Occurrences(segs[2].text, path)
         IN IF found = {} THEN <<NoMatch>>
            ELSE LET at == CHOOSE i \in found : \A j \in found : i <= j
                 IN <<SubSeq(path, 1, at - 1)>> \o Reparse(Tail(segs), Drop(path, at))

\* the string forms of the values a caller may pass: any Display value
RoundTripArgs == ArgTexts \cup {<<"t", "/">>}

\* C11: for every template with placeholders and every tuple of values, the
\* path the reverse-URL function returns, read back against the template's
\* literal segments, gives the supplied values unchanged and in order.
C11_ReverseUrlRoundTrip ==
    \A i \in 1..Len(routes) :
        LET segs == Segments(routes[i].path)
        IN (Supported(routes[i].path) /\ Placeholders(routes[i].path) # <<>>
              /\ Delimited(segs)) =>
               /\ routes[i].outcome = "ok"
               /\ routes[i].item.kind = "fn"
               /\ Len(routes[i].item.params) = Len(Placeholders(routes[i].path))
               /\ \A args \in [1..Len(Placeholders(routes[i].path)) -> RoundTripArgs] :
                     Reparse(segs, endpoint_path(routes[i].item, args)) = args

\* The malformed templates the specification names: a { without its }, a }
\* without its {, or an empty name {}.
RECURSIVE MalformedTemplate(_)
MalformedTemplate(t) ==
    LET open == Find(t, "{")
        close == Find(t, "}")
    IN IF open = 0 THEN close # 0
       ELSE IF close < open THEN TRUE
       ELSE IF close = open + 1 THEN TRUE
       ELSE IF Find(SubSeq(t, open + 1, close - 1), "{") # 0 THEN TRUE
       ELSE MalformedTemplate(Drop(t, close + 1))

\* C12: a declaration with a malformed template does not build: it leaves no
\* reverse-URL item and no RouteDefinition in the registry.
C12_MalformedTemplateRejected ==
    \A i \in 1..Len(routes) :
        MalformedTemplate(routes[i].path) =>
            /\ routes[i].outcome # "ok"
            /\ routes[i].item = NoItem
            /\ routes[i].submitted = <<>>
            /\ registry = <<>>

(***************************************************************************)
(* Properties of the registry and of Acacia::serve.                        *)
(***************************************************************************)
WellFormed(t) == Malformed \notin Range(Segments(t))

\* the specification's dispatch path: literals copied, Parameter(name) as :name
DispatchPath(segs) ==
    Flatten([k \in 1..Len(segs) |->
                IF segs[k].seg = "Literal" THEN segs[k].text
                ELSE <<":">> \o segs[k].name])

\* C13: the dispatch path added for a registered template is its segment
\* sequence with every literal copied and every Parameter(name) written
\* :name; a template without placeholders is added as it is.
C13_DispatchPathFromSegments ==
    \A k \in 2..Len(router) :
        LET template == enumerated[k - 1].path
        IN WellFormed(template) =>
              /\ router[k].path = DispatchPath(Segments(template))
              /\ Placeholders(template) = <<>> => router[k].path = template

C13_Witness ==
    /\ server = "serving"
    /\ \E k \in 2..Len(router) :
          /\ Len(Placeholders(enumerated[k - 1].path)) = 2
          /\ router[k].path = <<"/", ":", "a", "/", ":", "b">>

Count(x, seq) == Cardinality({k \in 1..Len(seq) : seq[k] = x})

\* C14 as stated: the enumeration is the registry in registration order.
\* the loop of serve has taken the enumeration
Enumerated == router # <<>>

C14_EnumerationInRegistrationOrder ==
    Enumerated => enumerated = registry

\* C14: the enumeration returns every registered RouteDefinition exactly as
\* many times as it was registered, equal definitions included; its order is
\* not tied to the order of registration.
C14_EnumerationKeepsEveryRegistration ==
    Enumerated =>
        /\ Len(enumerated) = Len(registry)
        /\ \A k \in 1..Len(registry) :
              Count(registry[k], enumerated) = Count(registry[k], registry)

C14_Witness ==
    /\ server = "routing"
    /\ Len(registry) = 2
    /\ registry[1] = registry[2]
    /\ enumerated = registry

\* every registered definition has its entry in the dispatch table
AllRoutesAdded ==
    /\ Len(router) = 1 + Len(registry)
    /\ \A k \in 1..Len(registry) :
          \E j \in 2..Len(router) :
              router[j] = RouteEntry(axum_path(registry[k].path), registry[k].method)

\* C15: when the listener is bound, and whenever a request is served, every
\* RouteDefinition of the registry is in the dispatch table; once serving has
\* begun the registry and the table stay as they are.
C15_RoutesAddedBeforeServing ==
    /\ []((server \in {"bound", "serving"} \/ requests > 0) => AllRoutesAdded)
    /\ [][server = "serving" =>
             /\ server' = "serving"
             /\ registry' = registry
             /\ routes' = routes
             /\ enumerated' = enumerated
             /\ router' = router]_vars

C15_Witness ==
    /\ server = "serving"
    /\ requests > 0
    /\ Len(registry) = 2
    /\ Len(router) = 3

(***************************************************************************)
(* Properties of the HtmxAction builder.                                   *)
(***************************************************************************)
\* the method in the lower case of the attribute names
LowerMethod(method) ==
    CASE method = "GET" -> <<"g", "e", "t">>
      [] method = "POST" -> <<"p", "o", "s", "t">>
      [] method = "PUT" -> <<"p", "u", "t">>
      [] method = "PATCH" -> <<"p", "a", "t", "c", "h">>
      [] method = "DELETE" -> <<"d", "e", "l", "e", "t", "e">>

Quoted(name, value) == name \o <<"=">> \o <<"\"">> \o value \o <<"\"">>

\* the method attribute of an endpoint under a method
MethodPair(method, path) == Quoted(<<"h", "x", "-">> \o LowerMethod(method), path)

\* the attribute string the specification gives for an action
ExpectedBuild(a) ==
    MethodPair(a.endpoint.method, a.endpoint.path)
    \o (IF a.target # None
        THEN <<" ">> \o Quoted(<<"h", "x", "-", "t", "a", "r", "g", "e", "t">>, target_fmt(a.target[1])) ELSE <<>>)
    \o (IF a.swap # None
        THEN <<" ">> \o Quoted(<<"h", "x", "-", "s", "w", "a", "p">>, swap_fmt(a.swap[1])) ELSE <<>>)

\* C16: build returns the method attribute of the endpoint's method with the
\* path, then hx-target iff a target is set, then hx-swap iff a swap is set,
\* joined by single spaces; and build leaves the builder as it was.
C16_BuildOrder ==
    /\ [](\A k \in 1..Len(built) : built[k].out = ExpectedBuild(built[k].of))
    /\ [][Len(built') > Len(built) =>
             /\ hx' = hx
             /\ built'[Len(built')].of = hx.action]_vars

C16_Witness ==
    /\ Len(built) = 2
    /\ built[1] = built[2]
    /\ built[1].of.endpoint.method = "PATCH"
    /\ built[1].of.target = Some(This)
    /\ built[1].of.swap = Some("Delete")

\* the expression at hand is the constructor alone, and it has been built
BuiltFrom(origin) ==
    /\ hx # NoAction
    /\ hx.origin = origin
    /\ hx.setters = 0
    /\ built # <<>>

\* C17: removes(e) builds hx-delete with the path of e, whatever the method
\* of e, with the target 'closest li' and the swap 'outerHTML'.
C17_RemovesBuildsDelete ==
    BuiltFrom("removes") =>
        built[1].out = MethodPair("DELETE", hx.of.path)
                         \o <<" ">> \o Quoted(<<"h", "x", "-", "t", "a", "r", "g", "e", "t">>, <<"c", "l", "o", "s", "e", "s", "t", " ", "l", "i">>)
                         \o <<" ">> \o Quoted(<<"h", "x", "-", "s", "w", "a", "p">>, <<"o", "u", "t", "e", "r", "H", "T", "M", "L">>)

ClassifiedStatus(variant) ==
    CASE variant = "NotFound" -> 404
      [] variant = "BadRequest" -> 400
      [] variant = "Unauthorized" -> 401
      [] variant = "Forbidden" -> 403
      [] variant = "Conflict" -> 409
      [] variant = "Internal" -> 500
      [] variant = "Database" -> 500

\* the body is the error fragment around the text
FragmentCarrying(body, text) ==
    /\ Len(body) = Len(ErrorOpen) + Len(text) + Len(ErrorClose)
    /\ SubSeq(body, 1, Len(ErrorOpen)) = ErrorOpen
    /\ SubSeq(body, Len(ErrorOpen) + 1, Len(ErrorOpen) + Len(text)) = text
    /\ Drop(body, Len(ErrorOpen) + Len(text) + 1) = ErrorClose

\* C19: the response of an AppError has the status classified for its variant
\* and the error fragment with its message as body; a database NotFound
\* arrives as NotFound, every other database error as Database with its text.
C19_StatusAndBodyByVariant ==
    response # NoResponse =>
        /\ response.sent.status = ClassifiedStatus(response.error.variant)
        /\ FragmentCarrying(response.sent.body, message(response.error))
        /\ response.db # None =>
              IF response.db[1].variant = "NotFound"
              THEN response.error = UnitError("NotFound")
              ELSE response.error = MessageError("Database", response.db[1].msg)

C19_Witness ==
    /\ response # NoResponse
    /\ response.db = Some(MessageError("Query", <<"a", "&">>))
    /\ response.sent.status = 500

(***************************************************************************)
(* Properties of the order of the output.                                  *)
(***************************************************************************)
\* The output of nodes in document order: each node's own output, a div's
\* children between its tags, one node after the other.
RECURSIVE InDocumentOrder(_, _)
InDocumentOrder(nodes, e) ==
    IF nodes = <<>> THEN <<>>
    ELSE LET node == Head(nodes)
             own == CASE node.kind = "Text" -> node.value
                      [] node.kind = "Block" ->
                            IF node.stmts[1].expr = Var THEN render_html(e)
                            ELSE render_html(node.stmts[1].expr.v)
                      [] node.kind = "Element" ->
                            <<"<", "d", "i", "v", ">">>
                            \o InDocumentOrder(node.children, e)
                            \o <<"<", "/", "d", "i", "v", ">">>
         IN own \o InDocumentOrder(Tail(nodes), e)

\* C20: the output follows the document order of the markup: at every point
\* of the render the buffer holds the whole output of the nodes before the
\* current one, in order, and nothing of a later node; the Fragment returned
\* is the output of all nodes in order.
C20_OutputInDocumentOrder ==
    (doc \in SequenceDocs /\ phase \in {"running", "done"}) =>
        /\ html = InDocumentOrder(SubSeq(doc, 1, pos - 1), env)
        /\ phase = "done" => fragment = InDocumentOrder(doc, env)

C20_Witness ==
    /\ phase = "done"
    /\ doc = <<Element(n_div, "OpenClose", <<>>,
                       <<Block(<<ExprStmt(Var)>>), Text(<<"a">>)>>),
               Block(<<ExprStmt(Lit(I32(7)))>>)>>
    /\ env = Str(<<"<", "'">>)
    /\ fragment = <<"<", "d", "i", "v", ">", "&", "l", "t", ";", "'", "a",
                    "<", "/", "d", "i", "v", ">", "7">>

(***************************************************************************)
(* Properties of the methods of #[action] routes.                          *)
(***************************************************************************)
\* the method string names one of the five methods, in any case
ValidMethodArg(method_arg) == to_uppercase(method_arg) \in Methods

\* C26: an #[action] whose method string is none of GET, POST, PUT, PATCH,
\* DELETE in any case is rejected: the declaration does not build and no
\* RouteDefinition is registered for it under any method.
C26_UnknownMethodRejected ==
    \A i \in 1..Len(routes) :
        (routes[i].macro = "action" /\ routes[i].method_arg # NoMethodArg
           /\ ~ValidMethodArg(routes[i].method_arg)) =>
            /\ routes[i].outcome # "ok"
            /\ routes[i].submitted = <<>>

\* the method a declaration asks for: GET for a page, the method string of an
\* action (POST when it has none)
DeclaredMethod(route) ==
    IF route.macro = "page" THEN "GET"
    ELSE IF route.method_arg = NoMethodArg THEN "POST"
    ELSE to_uppercase(route.method_arg)

\* C28: the Endpoint of a route's reverse-URL item carries the method of the
\* RouteDefinition registered for the route, so that submits of it emits the
\* attribute of the method the route is served on.
C28_EndpointMethodIsRouteMethod ==
    \A i \in 1..Len(routes) :
        (routes[i].outcome = "ok" /\ DeclaredMethod(routes[i]) \in Methods) =>
            /\ routes[i].submitted[1].method = DeclaredMethod(routes[i])
            /\ routes[i].item.method = routes[i].submitted[1].method
            /\ \A args \in [1..(IF routes[i].item.kind = "fn"
                                THEN Len(routes[i].item.params) ELSE 0) -> ArgTexts] :
                  LET endpoint == Endpoint(endpoint_path(routes[i].item, args),
                                           routes[i].item.method)
                  IN build(submits(endpoint))
                       = MethodPair(routes[i].submitted[1].method, endpoint.path)

\* C30: the body of the response for an AppError holds the characters
\* & < > " ' of the error's message only in escaped form: between the fixed
\* text of the fragment stands the message with each of them as an entity.
C30_ErrorMessageEscaped ==
    response # NoResponse =>
        LET body == response.sent.body
            shown == SubSeq(body, Len(ErrorOpen) + 1, Len(body) - Len(ErrorClose))
        IN /\ FragmentCarrying(body, shown)
           /\ EscapedAs(message(response.error), shown)

(***************************************************************************)
(* Properties of blocks, self-closing elements and spread attributes.      *)
(***************************************************************************)
\* exactly one statement, and it is a for loop or an if expression
ControlFlowShaped(block) ==
    /\ Len(block.stmts) = 1
    /\ block.stmts[1].s = "Expr"
    /\ block.stmts[1].expr.x \in {"ForLoop", "If"}

\* the document is one block, and its build has been decided
OneBlockBuilt ==
    /\ Len(doc) = 1
    /\ doc[1].kind = "Block"
    /\ phase \in {"done", "compile_error"}

\* C23: a block of exactly one statement that is a for loop or an if is
\* rendered as control flow; every other block, of several statements or of
\* one statement that is neither, is rendered as a generic expression block:
\* its value goes through the escaping render capability.
C23_ControlFlowIffSingleForOrIf ==
    OneBlockBuilt =>
        LET block == doc[1]
            last == block.stmts[Len(block.stmts)]
        IN IF ControlFlowShaped(block)
           THEN phase = "done" =>
                   fragment = IF block.stmts[1].expr.x = "ForLoop"
                              THEN BodyForEach(block.stmts[1].expr.body,
                                               block.stmts[1].expr.iter)
                              ELSE parse_block_body(
                                     SelectedBranch(block.stmts[1].expr), env)
           ELSE HasRenderHtml(StmtValue(last, env)) =>
                   /\ phase = "done"
                   /\ fragment = render_html(StmtValue(last, env))

\* what an element's attributes append, one after the other
AttributesOutput(el, e) ==
    Flatten([i \in 1..Len(el.attributes) |-> process_attribute(el.attributes[i], e)])

\* C24: an element whose tag is in the self-closing set renders as <tag, its
\* attributes and " />", with no children and no closing tag; every other
\* lowercase element renders as <tag attributes>, its children in order and
\* </tag>; the renderer's set is the 13 names the parser is configured with.
C24_SelfClosingRendering ==
    /\ Range(self_closing) = self_closed
    /\ self_closed = VoidNames
    /\ (RenderedOne /\ IsLiteralElement(doc[1])) =>
          LET el == doc[1]
              open == <<"<">> \o el.name \o AttributesOutput(el, env)
          IN IF el.name \in VoidNames
             THEN /\ fragment = open \o <<" ", "/", ">">>
                  /\ Occurrences(<<"<", "/">>, fragment) = {}
             ELSE fragment = open \o <<">">> \o process_nodes(el.children, env)
                               \o <<"<", "/">> \o el.name \o <<">">>

C24_Witness ==
    /\ RenderedOne
    /\ doc[1] = Element(n_wbr, "OpenOnly", <<>>, <<>>)
    /\ fragment = <<"<">> \o n_wbr \o <<" ", "/", ">">>

\* the string form of a spread value: the text itself, or what build returns
SpreadText(v) == IF v.t = "HtmxAction" THEN build(v.a) ELSE v.s

\* the document is one finished literal element with a spread among its
\* attributes
SpreadRendered ==
    /\ RenderedOne
    /\ doc \in SpreadDocs

\* C25: a spread attribute appends one space and the string form of its
\* expression, unescaped, between what the attributes before it and after it
\* append; an HtmxAction appears exactly as build returns it.
C25_SpreadUnescapedInPlace ==
    SpreadRendered =>
        LET el == doc[1]
            at == CHOOSE i \in 1..Len(el.attributes) : el.attributes[i].a = "Block"
            before == [el EXCEPT !.attributes = SubSeq(el.attributes, 1, at - 1)]
            after == [el EXCEPT !.attributes = Drop(el.attributes, at + 1)]
        IN fragment = <<"<">> \o el.name \o AttributesOutput(before, env)
                      \o <<" ">> \o SpreadText(el.attributes[at].expr.v)
                      \o AttributesOutput(after, env) \o TagEnd(el.name)

C25_Witness ==
    /\ SpreadRendered
    /\ doc[1].name = n_div
    /\ Len(doc[1].attributes) = 3
    /\ doc[1].attributes[2].expr.v.t = "HtmxAction"
    /\ Occurrences(<<"h", "x", "-", "d", "e", "l", "e", "t", "e", "=", "\"", "/", "t", "\"">>,
                   fragment) # {}

(***************************************************************************)
(* Properties of what a render exposes.                                    *)
(***************************************************************************)
\* C22: the caller sees output only as the Fragment of a render that ran to
\* its end; a render in which an expression fails returns no Fragment, and
\* nothing of what it had accumulated is handed to the caller.
C22_NoPartialOutput ==
    /\ phase = "failed" => fragment = NoFragment
    /\ fragment # NoFragment =>
          /\ phase = "done"
          /\ ~raises(doc)
          /\ fragment = process_nodes(doc, env)

C22_Witness ==
    /\ phase = "failed"
    /\ Len(doc) = 3
    /\ doc[1] = Text(<<"a">>)
    /\ pos = 2
    /\ fragment = NoFragment

(***************************************************************************)
(* Properties of concurrent renders.                                       *)
(***************************************************************************)
\* C21: renders running together do not affect each other: under every
\* interleaving of their statements the buffer of each holds exactly the
\* output of its own nodes so far, from its own environment, and the Fragment
\* it returns is the output it produces when run alone.
C21_ConcurrentRendersIndependent ==
    \A r \in 1..Len(renders) :
        /\ renders[r].html
             = InDocumentOrder(SubSeq(renders[r].doc, 1, renders[r].pos - 1),
                               renders[r].env)
        /\ renders[r].fragment # NoFragment =>
              renders[r].fragment = InDocumentOrder(renders[r].doc, renders[r].env)

C21_Witness ==
    /\ Len(renders) = 2
    /\ renders[1].doc # renders[2].doc
    /\ renders[1].env # renders[2].env
    /\ renders[1].pos = 2 /\ renders[1].html # <<>>
    /\ renders[2].pos = 2 /\ renders[2].html # <<>>

(***************************************************************************)
(* Properties of the database calls.                                       *)
(***************************************************************************)
Updates == {c \in 1..Len(dbcall) : dbcall[c].op = "update"}

\* C27: an update that is the only update made, once it has returned: on an
\* existing record, the record stored under the key and the record returned
\* are the previous record with f applied; on a key with no record it
\* returned NotFound and wrote nothing.
C27_UpdateAppliesMutation ==
    \A c \in Updates :
        (Updates = {c} /\ dbcall[c].pc = "done") =>
            IF dbcall[c].before # NoRow
            THEN /\ dbcall[c].result = Ok(mutate(dbcall[c].f, dbcall[c].before))
                 /\ get(store, dbcall[c].key)
                      = Some(mutate(dbcall[c].f, dbcall[c].before))
            ELSE /\ dbcall[c].result = Err("NotFound")
                 /\ dbcall[c].writes = 0

\* C29: an insert that has returned, returned the row that its own INSERT
\* statement created, whatever other insert ran between its statements.
C29_InsertReturnsOwnRow ==
    \A c \in 1..Len(dbcall) :
        (dbcall[c].op = "insert" /\ dbcall[c].pc = "done") =>
            /\ dbcall[c].result.kind = "Ok"
            /\ dbcall[c].result.row.id = dbcall[c].inserted
            /\ dbcall[c].result.row.title = dbcall[c].form

====
